---- MODULE Spec2Model ----
(***************************************************************************)
(* A model of the Homey MCP bridge: the HTTP client core (connect, the     *)
(* TTL device cache, capability writes, flow triggering, insights reads),  *)
(* the capability validator and the tool layer that sits on top of them.   *)
(* The hub is the environment: every response it gives is an input.        *)
(***************************************************************************)
EXTENDS Integers, Sequences, FiniteSets, TLC

(***************************************************************************)
(* Bounds of the model.                                                    *)
(***************************************************************************)
CacheTTL == 2
TimeSpan == 2
MaxTime == CacheTTL + TimeSpan

\* Numbers are fixed-point: a Python number x is the integer x * Scale.
Scale == 100 * 100

(***************************************************************************)
(* Python values: t is the runtime type, n the number (times Scale; 0/1    *)
(* for a bool), s the text of a str.                                       *)
(***************************************************************************)
PyBool(b) == [t |-> "bool", n |-> IF b THEN 1 ELSE 0, s |-> ""]
PyInt(i) == [t |-> "int", n |-> i * Scale, s |-> ""]
PyFloat(scaled) == [t |-> "float", n |-> scaled, s |-> ""]
PyStr(str) == [t |-> "str", n |-> 0, s |-> str]
PyNone == [t |-> "none", n |-> 0, s |-> ""]

\* str.lower() on the strings the model feeds in
Lower(str) ==
    CASE str = "ON" -> "on"
      [] str = "True" -> "true"
      [] str = "OFF" -> "off"
      [] str = "Yes" -> "yes"
      [] str = "No" -> "no"
      [] str = "FALSE" -> "false"
      [] str = "Living" -> "living"
      [] str = "Living Room" -> "living room"
      [] str = "Kitchen" -> "kitchen"
      [] str = "Bedroom" -> "bedroom"
      [] str = "Office" -> "office"
      [] str = "Morning" -> "morning"
      [] str = "Good Morning Routine" -> "good morning routine"
      [] str = "Evening Routine" -> "evening routine"
      [] OTHER -> str

\* the strings float() accepts, with the number each one parses to
NumericStrings == {"50", "0.5", "150", "1", "0"}
ParseNumber(str) ==
    CASE str = "50" -> 50 * Scale
      [] str = "0.5" -> Scale \div 2
      [] str = "150" -> 150 * Scale
      [] str = "1" -> Scale
      [] str = "0" -> 0
      [] OTHER -> 0

\* float(value): ok is FALSE where Python raises ValueError or TypeError
ToFloat(value) ==
    CASE value.t = "bool" -> [ok |-> TRUE, n |-> value.n * Scale]
      [] value.t = "int" -> [ok |-> TRUE, n |-> value.n]
      [] value.t = "float" -> [ok |-> TRUE, n |-> value.n]
      [] value.t = "str" -> [ok |-> value.s \in NumericStrings, n |-> ParseNumber(value.s)]
      [] OTHER -> [ok |-> FALSE, n |-> 0]

BooleanCapabilities ==
    {"onoff", "alarm_battery", "alarm_motion", "alarm_contact", "alarm_smoke",
     "alarm_co", "alarm_water", "alarm_generic"}
RangeCapabilities ==
    {"dim", "light_hue", "light_saturation", "light_temperature", "volume_set",
     "windowcoverings_set", "windowcoverings_tilt_set"}
TemperatureCapabilities == {"target_temperature", "measure_temperature"}
PowerCapabilities == {"measure_power", "meter_power", "measure_voltage", "measure_current"}
PercentageCapabilities == {"measure_battery", "measure_humidity"}
EnumCapabilities == {"light_mode"}

TrueStrings == {"true", "1", "on", "yes"}
FalseStrings == {"false", "0", "off", "no"}

Verdict(valid, value, message) == [is_valid |-> valid, value |-> value, message |-> message]

ValidateBoolean(value) ==
    IF value.t = "bool" THEN Verdict(TRUE, value, "")
    ELSE IF value.t = "str" /\ Lower(value.s) \in TrueStrings THEN Verdict(TRUE, PyBool(TRUE), "")
    ELSE IF value.t = "str" /\ Lower(value.s) \in FalseStrings THEN Verdict(TRUE, PyBool(FALSE), "")
    ELSE IF value.t = "int" THEN Verdict(TRUE, PyBool(value.n # 0), "")
    ELSE Verdict(FALSE, value, "expects boolean value")

\* ValidateRange without the percentage branch doing its division
ValidateRange_Unscaled(value) ==
    LET f == ToFloat(value) IN
    IF ~f.ok THEN Verdict(FALSE, value, "expects numeric value")
    ELSE IF 0 <= f.n /\ f.n <= 100 * Scale THEN Verdict(TRUE, PyFloat(f.n), "")
    ELSE Verdict(FALSE, value, "must be between 0.0-1.0 (or 0-100%)")

\* ValidateRange dividing every accepted value by 100
ValidateRange_AlwaysScaled(value) ==
    LET f == ToFloat(value) IN
    IF ~f.ok THEN Verdict(FALSE, value, "expects numeric value")
    ELSE IF 0 <= f.n /\ f.n <= 100 * Scale
         THEN Verdict(TRUE, PyFloat(f.n \div 100), "Converted percentage to fraction")
    ELSE Verdict(FALSE, value, "must be between 0.0-1.0 (or 0-100%)")

ValidateRange(value) ==
    LET f == ToFloat(value) IN
    IF ~f.ok THEN Verdict(FALSE, value, "expects numeric value")
    ELSE IF 0 <= f.n /\ f.n <= Scale THEN Verdict(TRUE, PyFloat(f.n), "")
    ELSE IF 0 <= f.n /\ f.n <= 100 * Scale
         THEN Verdict(TRUE, PyFloat(f.n \div 100), "Converted percentage to fraction")
    ELSE Verdict(FALSE, value, "must be between 0.0-1.0 (or 0-100%)")

\* ValidateTemperature with the upper bound excluded
ValidateTemperature_Exclusive(value) ==
    LET f == ToFloat(value) IN
    IF ~f.ok THEN Verdict(FALSE, value, "Temperature must be numeric")
    ELSE IF (0 - 50) * Scale <= f.n /\ f.n < 100 * Scale THEN Verdict(TRUE, PyFloat(f.n), "")
    ELSE Verdict(FALSE, value, "seems unrealistic")

ValidateTemperature(value) ==
    LET f == ToFloat(value) IN
    IF ~f.ok THEN Verdict(FALSE, value, "Temperature must be numeric")
    ELSE IF (0 - 50) * Scale <= f.n /\ f.n <= 100 * Scale THEN Verdict(TRUE, PyFloat(f.n), "")
    ELSE Verdict(FALSE, value, "seems unrealistic")

ValidatePower(value) ==
    LET f == ToFloat(value) IN
    IF ~f.ok THEN Verdict(FALSE, value, "expects numeric value")
    ELSE IF f.n >= 0 THEN Verdict(TRUE, PyFloat(f.n), "")
    ELSE Verdict(FALSE, value, "Power/energy cannot be negative")

ValidatePercentage(value) ==
    LET f == ToFloat(value) IN
    IF ~f.ok THEN Verdict(FALSE, value, "expects numeric value")
    ELSE IF 0 <= f.n /\ f.n <= 100 * Scale THEN Verdict(TRUE, PyFloat(f.n), "")
    ELSE Verdict(FALSE, value, "must be between 0-100%")

ValidateEnum(value) ==
    IF value.t = "str" /\ value.s \in {"color", "temperature"} THEN Verdict(TRUE, value, "")
    ELSE Verdict(FALSE, value, "has invalid value")

\* validate_capability_value where a value the boolean rule rejects is
\* handed on to the rules below it
validate_capability_value_FallsThrough(capability, value) ==
    IF capability \in BooleanCapabilities /\ ValidateBoolean(value).is_valid
    THEN ValidateBoolean(value)
    ELSE IF capability \in RangeCapabilities THEN ValidateRange(value)
    ELSE IF capability \in TemperatureCapabilities THEN ValidateTemperature(value)
    ELSE IF capability \in PowerCapabilities THEN ValidatePower(value)
    ELSE IF capability \in PercentageCapabilities THEN ValidatePercentage(value)
    ELSE IF capability \in EnumCapabilities THEN ValidateEnum(value)
    ELSE Verdict(TRUE, value, "")

validate_capability_value(capability, value) ==
    IF capability \in BooleanCapabilities THEN ValidateBoolean(value)
    ELSE IF capability \in RangeCapabilities THEN ValidateRange(value)
    ELSE IF capability \in TemperatureCapabilities THEN ValidateTemperature(value)
    ELSE IF capability \in PowerCapabilities THEN ValidatePower(value)
    ELSE IF capability \in PercentageCapabilities THEN ValidatePercentage(value)
    ELSE IF capability \in EnumCapabilities THEN ValidateEnum(value)
    ELSE Verdict(TRUE, value, "")

(***************************************************************************)
(* The hub's answers.  A response is either a status code or, when exc is  *)
(* not empty, the exception httpx raised in place of a response.           *)
(***************************************************************************)
Statuses == {200, 401, 404, 405, 500}
Exceptions == {"ConnectTimeout", "ConnectError"}
Responses ==
    {[status |-> st, exc |-> ""] : st \in Statuses}
        \cup {[status |-> 0, exc |-> e] : e \in Exceptions}
Ok200 == [status |-> 200, exc |-> ""]

\* response.is_success, the test raise_for_status() makes
IsSuccess(r) == r.exc = "" /\ r.status >= 200 /\ r.status <= 299

Err(kind, code) == [kind |-> kind, code |-> code]
NoErr == Err("", 0)
\* the exception a failed request surfaces as
ErrOf(r) == IF r.exc # "" THEN Err(r.exc, 0) ELSE Err("HTTPStatusError", r.status)

Req(m, p, a, b, body) == [m |-> m, p |-> p, a |-> a, b |-> b, body |-> body]
Get(p) == Req("GET", p, "", "", PyNone)

(***************************************************************************)
(* Devices.                                                                *)
(***************************************************************************)
Cap(value, title) == [value |-> value, title |-> title]
Device(name, class, zone, caps) ==
    [name |-> name, class |-> class, zoneName |-> zone, available |-> TRUE,
     capabilitiesObj |-> caps]
NoCaps == [c \in {} |-> Cap(PyNone, "")]
NoDevices == [d \in {} |-> Device("", "", "", NoCaps)]

\* the fixture get_devices() serves in demo/offline mode
demo_devices ==
    [d \in {"light1", "light2", "sensor1", "thermostat1", "socket1"} |->
       CASE d = "light1" ->
              Device("Living Room Lamp", "light", "Living Room",
                [c \in {"onoff", "dim", "light_hue", "light_saturation",
                        "light_temperature", "light_mode"} |->
                   CASE c = "onoff" -> Cap(PyBool(FALSE), "On/Off")
                     [] c = "dim" -> Cap(PyFloat(8000), "Brightness")
                     [] c = "light_hue" -> Cap(PyFloat(2000), "Color")
                     [] c = "light_saturation" -> Cap(PyFloat(9000), "Saturation")
                     [] c = "light_temperature" -> Cap(PyFloat(5000), "Color Temperature")
                     [] OTHER -> Cap(PyStr("color"), "Mode")])
         [] d = "light2" ->
              Device("Kitchen Spots", "light", "Kitchen",
                [c \in {"onoff", "dim", "light_temperature"} |->
                   CASE c = "onoff" -> Cap(PyBool(TRUE), "On/Off")
                     [] c = "dim" -> Cap(PyFloat(6000), "Brightness")
                     [] OTHER -> Cap(PyFloat(3000), "Color Temperature")])
         [] d = "sensor1" ->
              Device("Temperature Sensor", "sensor", "Bedroom",
                [c \in {"measure_temperature", "measure_humidity", "measure_battery",
                        "alarm_battery"} |->
                   CASE c = "measure_temperature" -> Cap(PyFloat(215000), "Temperature")
                     [] c = "measure_humidity" -> Cap(PyFloat(652000), "Humidity")
                     [] c = "measure_battery" -> Cap(PyInt(85), "Battery")
                     [] OTHER -> Cap(PyBool(FALSE), "Battery Low")])
         [] d = "thermostat1" ->
              Device("Living Room Thermostat", "thermostat", "Living Room",
                [c \in {"target_temperature", "measure_temperature", "measure_battery"} |->
                   CASE c = "target_temperature" -> Cap(PyFloat(200000), "Target Temperature")
                     [] c = "measure_temperature" -> Cap(PyFloat(192000), "Current Temperature")
                     [] OTHER -> Cap(PyInt(92), "Battery")])
         [] OTHER ->
              Device("Desk Socket", "socket", "Office",
                [c \in {"onoff", "measure_power", "meter_power"} |->
                   CASE c = "onoff" -> Cap(PyBool(TRUE), "On/Off")
                     [] c = "measure_power" -> Cap(PyFloat(452000), "Power")
                     [] OTHER -> Cap(PyFloat(23400), "Energy")])]

\* device maps a hub may answer GET /api/manager/devices/device/ with
HomeA ==
    [d \in {"light1", "sensor1"} |->
       IF d = "light1"
       THEN Device("Lamp", "light", "Living Room",
              [c \in {"onoff", "dim"} |->
                 IF c = "onoff" THEN Cap(PyBool(FALSE), "On/Off")
                 ELSE Cap(PyFloat(6000), "Brightness")])
       ELSE Device("Sensor", "sensor", "Bedroom",
              [c \in {"measure_temperature"} |-> Cap(PyFloat(215000), "Temperature")])]
HomeB ==
    [d \in {"light1", "light2", "thermostat1"} |->
       CASE d = "light1" ->
              Device("Lamp", "light", "Living Room",
                [c \in {"onoff", "dim", "light_hue", "light_saturation", "light_temperature"} |->
                   CASE c = "onoff" -> Cap(PyBool(TRUE), "On/Off")
                     [] c = "dim" -> Cap(PyFloat(6000), "Brightness")
                     [] c = "light_hue" -> Cap(PyFloat(2000), "Color")
                     [] c = "light_saturation" -> Cap(PyFloat(9000), "Saturation")
                     [] OTHER -> Cap(PyFloat(5000), "Color Temperature")])
         [] d = "light2" ->
              Device("Spots", "light", "Living Room",
                [c \in {"onoff", "light_hue", "light_saturation", "light_mode"} |->
                   CASE c = "onoff" -> Cap(PyBool(FALSE), "On/Off")
                     [] c = "light_hue" -> Cap(PyFloat(2000), "Color")
                     [] c = "light_saturation" -> Cap(PyFloat(9000), "Saturation")
                     [] OTHER -> Cap(PyStr("color"), "Mode")])
         [] OTHER ->
              Device("Thermostat", "thermostat", "Living Room",
                [c \in {"target_temperature"} |-> Cap(PyFloat(200000), "Target Temperature")])]
HubMaps == {NoDevices, HomeA, HomeB}
\* a response body: ok is FALSE when response.json() cannot decode it
DeviceBodies == {[ok |-> TRUE, devices |-> m] : m \in HubMaps}
                    \cup {[ok |-> FALSE, devices |-> NoDevices]}

(***************************************************************************)
(* The client.  An operation is an operator from the client's fields and   *)
(* the hub's answers to the new fields, the requests it sent (with the     *)
(* answers it consumed), the exception it raised (NoErr if none) and the   *)
(* device map it returned.                                                 *)
(***************************************************************************)
\* what a read other than the device list returned: kind names where it
\* came from, n counts its entries, flags are per-endpoint booleans
Data(kind, n, flags) == [kind |-> kind, n |-> n, flags |-> flags]
NoData == Data("", 0, <<>>)

Result(c, reqs, resps, err, devices) ==
    [c |-> c, reqs |-> reqs, resps |-> resps, err |-> err, devices |-> devices,
     flows |-> {}, data |-> NoData]
Flows(c, reqs, resps, err, flows) ==
    [c |-> c, reqs |-> reqs, resps |-> resps, err |-> err, devices |-> NoDevices,
     flows |-> flows, data |-> NoData]
Read(c, reqs, resps, err, data) ==
    [c |-> c, reqs |-> reqs, resps |-> resps, err |-> err, devices |-> NoDevices,
     flows |-> {},
     data |-> data]

\* a variant that forgets the demo flag
DemoActiveOfflineOnly(c) == c.offline_mode

DemoActive(c) == c.offline_mode \/ c.demo_mode

\* a variant that re-raises a 401 like any other status
connectRaises401(c, r) ==
    IF c.offline_mode THEN Result(c, <<>>, <<>>, NoErr, NoDevices)
    ELSE LET opened == [c EXCEPT !.session = TRUE]
             degraded == [opened EXCEPT !.offline_mode = TRUE, !.demo_mode = TRUE]
             probe == <<Get("/api/manager/system")>>
         IN IF r.exc # "" THEN Result(degraded, probe, <<r>>, NoErr, NoDevices)
            ELSE IF ~IsSuccess(r) THEN Result(opened, probe, <<r>>, ErrOf(r), NoDevices)
            ELSE Result(opened, probe, <<r>>, NoErr, NoDevices)

\* a variant that degrades by the offline flag alone
connect_OfflineOnly(c, r) ==
    IF c.offline_mode THEN Result(c, <<>>, <<>>, NoErr, NoDevices)
    ELSE LET opened == [c EXCEPT !.session = TRUE]
             degraded == [opened EXCEPT !.offline_mode = TRUE]
             probe == <<Get("/api/manager/system")>>
         IN IF r.exc # "" \/ r.status = 401
            THEN Result(degraded, probe, <<r>>, NoErr, NoDevices)
            ELSE IF ~IsSuccess(r) THEN Result(opened, probe, <<r>>, ErrOf(r), NoDevices)
            ELSE Result(opened, probe, <<r>>, NoErr, NoDevices)

connect(c, r) ==
    IF c.offline_mode THEN Result(c, <<>>, <<>>, NoErr, NoDevices)
    ELSE LET opened == [c EXCEPT !.session = TRUE]
             degraded == [opened EXCEPT !.offline_mode = TRUE, !.demo_mode = TRUE]
             probe == <<Get("/api/manager/system")>>
         IN IF r.exc = "ConnectTimeout"
            THEN Result(degraded, probe, <<r>>, NoErr, NoDevices)
            ELSE IF r.exc = "" /\ ~IsSuccess(r)
            THEN IF r.status = 401
                 THEN Result(degraded, probe, <<r>>, NoErr, NoDevices)
                 ELSE Result(opened, probe, <<r>>, ErrOf(r), NoDevices)
            ELSE IF r.exc # ""
            THEN Result(degraded, probe, <<r>>, NoErr, NoDevices)
            ELSE Result(opened, probe, <<r>>, NoErr, NoDevices)

\* the freshness test of get_devices: a non-empty cache younger than the TTL
CacheFresh(c, t) == c.device_cache # NoDevices /\ t - c.cache_timestamp < CacheTTL

\* a variant that falls back to the cached map when the fetch fails
get_devices_ServesStale(c, t, r, body) ==
    IF DemoActive(c) THEN Result(c, <<>>, <<>>, NoErr, demo_devices)
    ELSE IF CacheFresh(c, t) THEN Result(c, <<>>, <<>>, NoErr, c.device_cache)
    ELSE LET req == <<Get("/api/manager/devices/device/")>> IN
         IF ~IsSuccess(r) \/ ~body.ok
         THEN IF c.device_cache # NoDevices THEN Result(c, req, <<r>>, NoErr, c.device_cache)
              ELSE Result(c, req, <<r>>, ErrOf(r), NoDevices)
         ELSE Result([c EXCEPT !.device_cache = body.devices, !.cache_timestamp = t],
                     req, <<r>>, NoErr, body.devices)

get_devices(c, t, r, body) ==
    IF DemoActive(c) THEN Result(c, <<>>, <<>>, NoErr, demo_devices)
    ELSE IF CacheFresh(c, t) THEN Result(c, <<>>, <<>>, NoErr, c.device_cache)
    ELSE LET req == <<Get("/api/manager/devices/device/")>> IN
         IF ~IsSuccess(r) THEN Result(c, req, <<r>>, ErrOf(r), NoDevices)
         ELSE IF ~body.ok THEN Result(c, req, <<r>>, Err("JSONDecodeError", 0), NoDevices)
         ELSE Result([c EXCEPT !.device_cache = body.devices, !.cache_timestamp = t],
                     req, <<r>>, NoErr, body.devices)

get_device(c, device_id, t, r, body) ==
    LET got == get_devices(c, t, r, body) IN
    IF got.err # NoErr THEN got
    ELSE IF device_id \notin DOMAIN got.devices
    THEN [got EXCEPT !.err = Err("ValueError: Device not found", 0), !.devices = NoDevices]
    ELSE [got EXCEPT !.devices = [d \in {device_id} |-> got.devices[d]]]

\* a variant that leaves the cache as it was
PatchCacheStale(cache, device_id, capability, converted) == cache

\* a variant that stores the value even for a capability that was not cached
PatchCacheAdds(cache, device_id, capability, converted) ==
    IF cache # NoDevices /\ device_id \in DOMAIN cache
    THEN [cache EXCEPT ![device_id].capabilitiesObj =
            (capability :> Cap(converted, capability)) @@ @]
    ELSE cache

\* the cache after a successful write: only a cached capability of a cached
\* device is given the converted value
PatchCache(cache, device_id, capability, converted) ==
    IF cache # NoDevices /\ device_id \in DOMAIN cache
       /\ capability \in DOMAIN cache[device_id].capabilitiesObj
    THEN [cache EXCEPT ![device_id].capabilitiesObj[capability].value = converted]
    ELSE cache

CapabilityEndpoint == "/api/manager/devices/device/{id}/capability/{cap}/"

\* a variant that tests the demo flags before it validates
set_capability_value_DemoFirst(c, device_id, capability, value, r1, r2) ==
    LET v == validate_capability_value(capability, value)
        put == Req("PUT", CapabilityEndpoint, device_id, capability, v.value)
        post == Req("POST", CapabilityEndpoint, device_id, capability, v.value)
    IN IF DemoActive(c) THEN Result(c, <<>>, <<>>, NoErr, NoDevices)
       ELSE IF ~v.is_valid
       THEN Result(c, <<>>, <<>>, Err("ValueError: Invalid capability value", 0), NoDevices)
       ELSE IF r1.exc # "" THEN Result(c, <<put>>, <<r1>>, ErrOf(r1), NoDevices)
       ELSE LET retry == r1.status = 405
                reqs == IF retry THEN <<put, post>> ELSE <<put>>
                resps == IF retry THEN <<r1, r2>> ELSE <<r1>>
                response == IF retry THEN r2 ELSE r1
            IN IF ~IsSuccess(response) THEN Result(c, reqs, resps, ErrOf(response), NoDevices)
               ELSE Result([c EXCEPT !.device_cache =
                                PatchCache(c.device_cache, device_id, capability, v.value)],
                           reqs, resps, NoErr, NoDevices)

\* a variant that falls back to POST after any failed PUT
set_capability_value_RetryAny(c, device_id, capability, value, r1, r2) ==
    LET v == validate_capability_value(capability, value)
        put == Req("PUT", CapabilityEndpoint, device_id, capability, v.value)
        post == Req("POST", CapabilityEndpoint, device_id, capability, v.value)
    IN IF ~v.is_valid
       THEN Result(c, <<>>, <<>>, Err("ValueError: Invalid capability value", 0), NoDevices)
       ELSE IF DemoActive(c) THEN Result(c, <<>>, <<>>, NoErr, NoDevices)
       ELSE IF r1.exc # "" THEN Result(c, <<put>>, <<r1>>, ErrOf(r1), NoDevices)
       ELSE LET retry == ~IsSuccess(r1)
                reqs == IF retry THEN <<put, post>> ELSE <<put>>
                resps == IF retry THEN <<r1, r2>> ELSE <<r1>>
                response == IF retry THEN r2 ELSE r1
            IN IF ~IsSuccess(response) THEN Result(c, reqs, resps, ErrOf(response), NoDevices)
               ELSE Result([c EXCEPT !.device_cache =
                                PatchCache(c.device_cache, device_id, capability, v.value)],
                           reqs, resps, NoErr, NoDevices)

set_capability_value(c, device_id, capability, value, r1, r2) ==
    LET v == validate_capability_value(capability, value)
        put == Req("PUT", CapabilityEndpoint, device_id, capability, v.value)
        post == Req("POST", CapabilityEndpoint, device_id, capability, v.value)
    IN IF ~v.is_valid
       THEN Result(c, <<>>, <<>>, Err("ValueError: Invalid capability value", 0), NoDevices)
       ELSE IF DemoActive(c) THEN Result(c, <<>>, <<>>, NoErr, NoDevices)
       ELSE IF r1.exc # "" THEN Result(c, <<put>>, <<r1>>, ErrOf(r1), NoDevices)
       ELSE LET retry == r1.status = 405
                reqs == IF retry THEN <<put, post>> ELSE <<put>>
                resps == IF retry THEN <<r1, r2>> ELSE <<r1>>
                response == IF retry THEN r2 ELSE r1
            IN IF ~IsSuccess(response) THEN Result(c, reqs, resps, ErrOf(response), NoDevices)
               ELSE Result([c EXCEPT !.device_cache =
                                PatchCache(c.device_cache, device_id, capability, v.value)],
                           reqs, resps, NoErr, NoDevices)

\* the flows are known by their ids; a flow's name is FlowName of its id
demo_flows == {"flow1", "flow2"}
FlowName(flow_id) ==
    CASE flow_id = "flow1" -> "Good Morning Routine"
      [] flow_id = "flow2" -> "Evening Routine"
      [] OTHER -> flow_id

get_flows(c, r, body) ==
    IF DemoActive(c) THEN Flows(c, <<>>, <<>>, NoErr, demo_flows)
    ELSE LET req == <<Get("/api/manager/flow/flow/")>> IN
         IF ~IsSuccess(r) THEN Flows(c, req, <<r>>, ErrOf(r), {})
         ELSE IF ~body.ok THEN Flows(c, req, <<r>>, Err("JSONDecodeError", 0), {})
         ELSE Flows(c, req, <<r>>, NoErr, body.flows)

\* a variant that tries /start before /trigger
endpoints_to_try_Swapped ==
    <<"/api/manager/flow/flow/{id}/start", "/api/manager/flow/flow/{id}/trigger",
      "/api/manager/flow/flow/{id}/run", "/api/manager/flow/flow/{id}/">>

endpoints_to_try ==
    <<"/api/manager/flow/flow/{id}/trigger", "/api/manager/flow/flow/{id}/start",
      "/api/manager/flow/flow/{id}/run", "/api/manager/flow/flow/{id}/">>

\* a variant that keeps the first error in place of the last
RECURSIVE TriggerLoopFirstError(_, _, _, _, _, _)
TriggerLoopFirstError(c, flow_id, rs, i, last_error, reqs) ==
    IF i > Len(endpoints_to_try)
    THEN Result(c, reqs, SubSeq(rs, 1, Len(reqs)),
                IF last_error # NoErr THEN last_error
                ELSE Err("Exception: All flow trigger endpoints failed", 0), NoDevices)
    ELSE LET sent == Append(reqs, Req("POST", endpoints_to_try[i], flow_id, "", PyNone))
             r == rs[i]
             kept == IF last_error # NoErr THEN last_error ELSE ErrOf(r)
         IN IF IsSuccess(r) THEN Result(c, sent, SubSeq(rs, 1, i), NoErr, NoDevices)
            ELSE IF r.exc = ""
            THEN IF r.status = 404
                 THEN TriggerLoopFirstError(c, flow_id, rs, i + 1, kept, sent)
                 ELSE Result(c, sent, SubSeq(rs, 1, i), ErrOf(r), NoDevices)
            ELSE TriggerLoopFirstError(c, flow_id, rs, i + 1, kept, sent)

\* the loop of trigger_flow from variant i on; rs[i] answers variant i
RECURSIVE TriggerLoop(_, _, _, _, _, _)
TriggerLoop(c, flow_id, rs, i, last_error, reqs) ==
    IF i > Len(endpoints_to_try)
    THEN Result(c, reqs, SubSeq(rs, 1, Len(reqs)),
                IF last_error # NoErr THEN last_error
                ELSE Err("Exception: All flow trigger endpoints failed", 0), NoDevices)
    ELSE LET sent == Append(reqs, Req("POST", endpoints_to_try[i], flow_id, "", PyNone))
             r == rs[i]
         IN IF IsSuccess(r) THEN Result(c, sent, SubSeq(rs, 1, i), NoErr, NoDevices)
            ELSE IF r.exc = ""
            THEN IF r.status = 404
                 THEN TriggerLoop(c, flow_id, rs, i + 1, ErrOf(r), sent)
                 ELSE Result(c, sent, SubSeq(rs, 1, i), ErrOf(r), NoDevices)
            ELSE TriggerLoop(c, flow_id, rs, i + 1, ErrOf(r), sent)

trigger_flow(c, flow_id, rs) ==
    IF DemoActive(c) THEN Result(c, <<>>, <<>>, NoErr, NoDevices)
    ELSE TriggerLoop(c, flow_id, rs, 1, NoErr, <<>>)

\* the reads that are one GET followed by raise_for_status(): the insights
\* state, one insights log, and every energy read
SimpleReadEndpoints ==
    {"/api/manager/insights/state", "/api/manager/insights/log/{id}",
     "/api/manager/energy/state", "/api/manager/energy/live",
     "/api/manager/energy/currency", "/api/manager/energy/reports/available",
     "/api/manager/energy/report/day", "/api/manager/energy/report/week",
     "/api/manager/energy/report/month", "/api/manager/energy/report/hour",
     "/api/manager/energy/report/year"}

simple_read(c, endpoint, r) ==
    IF DemoActive(c) THEN Read(c, <<>>, <<>>, NoErr, Data("demo", 1, <<>>))
    ELSE IF ~IsSuccess(r) THEN Read(c, <<Get(endpoint)>>, <<r>>, ErrOf(r), NoData)
    ELSE Read(c, <<Get(endpoint)>>, <<r>>, NoErr, Data("hub", 1, <<>>))

\* A log of the hub's list: has_id and has_uri say whether the keys "id" and
\* "ownerUri" are present; ownerId is "" where the key is absent.  A record
\* of the log map carries id, full_id ("" where absent) and uri.
LogEntry(has_id, id, has_uri, ownerUri, ownerId) ==
    [has_id |-> has_id, id |-> id, has_uri |-> has_uri, ownerUri |-> ownerUri,
     ownerId |-> ownerId]
LogRecord(id, full_id, uri) == [id |-> id, full_id |-> full_id, uri |-> uri]
NoLogs == [k \in {} |-> LogRecord("", "", "")]

\* str.split(":") on the URIs the model feeds in
SplitColon(str) ==
    CASE str = "homey:device:light1" -> <<"homey", "device", "light1">>
      [] str = "homey:device:sensor1" -> <<"homey", "device", "sensor1">>
      [] str = "homey:device:socket1" -> <<"homey", "device", "socket1">>
      [] str = "homey:weather" -> <<"homey", "weather">>
      [] OTHER -> <<str>>

\* the list branch of get_insights_logs: the map is filled in list order, so
\* the last log of a key is the one that stays.  A key "{device}.{capability}"
\* is the pair of its two parts.
logs_dict(raw_data) ==
    LET kept == {i \in DOMAIN raw_data : raw_data[i].has_id /\ raw_data[i].has_uri}
        key(i) == LET uri_parts == SplitColon(raw_data[i].ownerUri)
                  IN <<IF Len(uri_parts) > 2 THEN uri_parts[Len(uri_parts)] ELSE "unknown",
                       raw_data[i].ownerId>>
    IN [k \in {key(i) : i \in kept} |->
          LET i == CHOOSE j \in kept : key(j) = k /\ \A m \in kept : key(m) = k => m <= j
          IN LogRecord(raw_data[i].ownerId, raw_data[i].id, raw_data[i].ownerUri)]

\* get_insights_logs: the first endpoint answering 200 with a decodable body
\* gives the logs; a body is [ok, shape, raw], raw the decoded list or map.
\* The map returned is in data.flags.
LogEndpoints == <<"/api/manager/insights/log", "/api/manager/insights/log/">>
LogHit(r, body) == r.exc = "" /\ r.status = 200 /\ body.ok
LogData(body) ==
    LET logs == IF body.shape = "list" THEN logs_dict(body.raw) ELSE body.raw
    IN Data(body.shape, Cardinality(DOMAIN logs), logs)

\* the log map of demo/offline mode: its records carry no full_id
demo_logs ==
    [k \in {<<"light1", "onoff">>, <<"light1", "dim">>, <<"sensor1", "measure_temperature">>,
            <<"socket1", "measure_power">>} |->
       LogRecord(k[2], "",
                 CASE k[1] = "light1" -> "homey:device:light1"
                   [] k[1] = "sensor1" -> "homey:device:sensor1"
                   [] OTHER -> "homey:device:socket1")]

get_insights_logs(c, r1, body1, r2, body2) ==
    IF DemoActive(c) THEN Read(c, <<>>, <<>>, NoErr, Data("demo", 4, demo_logs))
    ELSE IF LogHit(r1, body1)
    THEN Read(c, <<Get(LogEndpoints[1])>>, <<r1>>, NoErr, LogData(body1))
    ELSE IF LogHit(r2, body2)
    THEN Read(c, <<Get(LogEndpoints[1]), Get(LogEndpoints[2])>>, <<r1, r2>>, NoErr,
              LogData(body2))
    ELSE Read(c, <<Get(LogEndpoints[1]), Get(LogEndpoints[2])>>, <<r1, r2>>, NoErr,
              Data("empty", 0, NoLogs))

\* get_insights_storage_info: the first endpoint answering 200 with a body
\* that looks like storage info wins; otherwise an estimate from the logs
StorageEndpoints ==
    <<"/api/manager/insights/storage", "/api/manager/insights/", "/api/manager/insights">>
StorageHit(r, looks) == r.exc = "" /\ r.status = 200 /\ looks

\* a variant that puts the id into the path as it is
QuoteNothing(str) == str

\* urllib.parse.quote(str, safe='') on the ids the model feeds in: ":" is
\* the only reserved character in them
Quote(str) ==
    CASE str = "homey:device:light1:dim" -> "homey%3Adevice%3Alight1%3Adim"
      [] str = "homey:device:light1:onoff" -> "homey%3Adevice%3Alight1%3Aonoff"
      [] str = "homey:weather:temp" -> "homey%3Aweather%3Atemp"
      [] OTHER -> str

\* the device id get_insights_log_entries takes from its uri argument
DeviceOfUri(uri) == SplitColon(uri)[Len(SplitColon(uri))]

EntryPath == "/api/manager/insights/log/{encoded_log_id}/entry"

\* the type of the values the demo generator draws for a log: a random
\* boolean for a log_id containing onoff, a rounded random float otherwise
\* (temperature, dim and power are tested before onoff)
DemoValueType(log_id) == IF log_id = "onoff" THEN "bool" ELSE "float"

\* get_insights_log_entries: r and body answer the entries request; the
\* request carries the quoted id in a and the resolution in b
get_insights_log_entries(c, uri, log_id, resolution, r1, body1, r2, body2, r, body) ==
    IF DemoActive(c)
    THEN Read(c, <<>>, <<>>, NoErr,
              Data("demo", IF resolution = "1h" THEN 24 ELSE 7 * 24, <<DemoValueType(log_id)>>))
    ELSE LET listed == get_insights_logs(c, r1, body1, r2, body2)
             logs == listed.data.flags
             search_key == <<DeviceOfUri(uri), log_id>>
             sent == Req("GET", EntryPath, Quote(logs[search_key].full_id), resolution, PyNone)
         IN IF search_key \notin DOMAIN logs
            THEN [listed EXCEPT !.data = Data("entries", 0, <<>>)]
            ELSE IF logs[search_key].full_id = ""
            THEN [listed EXCEPT !.data = Data("entries", 0, <<>>)]
            ELSE IF ~IsSuccess(r)
            THEN Read(c, Append(listed.reqs, sent), Append(listed.resps, r), ErrOf(r), NoData)
            ELSE IF ~body.ok
            THEN Read(c, Append(listed.reqs, sent), Append(listed.resps, r),
                      Err("JSONDecodeError", 0), NoData)
            ELSE Read(c, Append(listed.reqs, sent), Append(listed.resps, r), NoErr,
                      Data("entries", body.n, IF body.n = 0 THEN <<>> ELSE <<body.vtype>>))

get_insights_storage_info(c, rs, looks, r1, body1, r2, body2) ==
    IF DemoActive(c) THEN Read(c, <<>>, <<>>, NoErr, Data("demo", 25, <<>>))
    ELSE LET hits == {i \in 1..Len(StorageEndpoints) : StorageHit(rs[i], looks[i])}
             gets == [i \in 1..Len(StorageEndpoints) |-> Get(StorageEndpoints[i])]
         IN IF hits # {}
            THEN LET k == CHOOSE i \in hits : \A j \in hits : i <= j
                 IN Read(c, SubSeq(gets, 1, k), SubSeq(rs, 1, k), NoErr, Data("hub", 1, <<>>))
            ELSE LET logs == get_insights_logs(c, r1, body1, r2, body2)
                 IN Read(c, gets \o logs.reqs, rs \o logs.resps, NoErr,
                         Data("estimate", logs.data.n, <<>>))

test_endpoint_paths ==
    <<"/api/manager/system", "/api/manager/devices/device", "/api/manager/devices/device/",
      "/api/manager/flow/flow", "/api/manager/flow/flow/", "/api/manager/geolocation/",
      "/api/manager/cloud/state/", "/api/manager/insights/log", "/api/manager/insights/log/",
      "/api/manager/insights/state", "/api/manager/insights/storage",
      "/api/manager/energy/state", "/api/manager/energy/live", "/api/manager/energy/currency">>

test_endpoints(c, rs) ==
    IF DemoActive(c) THEN Read(c, <<>>, <<>>, NoErr, Data("demo_mode", 1, <<TRUE>>))
    ELSE Read(c, [i \in 1..Len(test_endpoint_paths) |-> Get(test_endpoint_paths[i])], rs, NoErr,
              Data("results", Len(test_endpoint_paths),
                   [i \in 1..Len(test_endpoint_paths) |-> rs[i].exc = "" /\ rs[i].status = 200]))

(***************************************************************************)
(* The tool layer.  A handler is an operator from the client's fields, the *)
(* tool's arguments and the hub's answers to what it left behind: the      *)
(* client's fields, the requests sent underneath it, the exceptions the    *)
(* client operations raised to it, the text it returned and the exception  *)
(* that left it (NoErr if none).                                           *)
(***************************************************************************)
\* the text of a tool: failure says it carries a failure message, kind is its
\* fixed wording ([X] and [OK] stand for the cross and check marks), n a count
\* it states, errors the exceptions it prints, lines the result lines joined
\* under it (the device each is about and whether it reports success)
Reply(failure, kind, n, errors) ==
    [failure |-> failure, kind |-> kind, n |-> n, errors |-> errors, lines |-> <<>>]
NoReply == Reply(FALSE, "", 0, <<>>)

Handled(c, reqs, resps, raised, reply) ==
    [c |-> c, reqs |-> reqs, resps |-> resps, raised |-> raised, reply |-> reply,
     exc |-> NoErr]

\* res ran after the calls of before: the requests add up
After(before, res) ==
    [res EXCEPT !.reqs = before.reqs \o @, !.resps = before.resps \o @]

\* the except clause of a handler: the exception becomes a failure text
Caught(res, kind) ==
    Handled(res.c, res.reqs, res.resps, <<res.err>>, Reply(TRUE, kind, 0, <<res.err>>))
\* a return statement of a handler after the calls of res
Returned(res, failure, kind, n) ==
    Handled(res.c, res.reqs, res.resps, <<>>, Reply(failure, kind, n, <<>>))

\* needle in haystack, on the strings the model feeds in
Contains(haystack, needle) ==
    \/ needle = ""
    \/ needle = haystack
    \/ needle = "living" /\ haystack = "living room"
    \/ needle = "morning" /\ haystack = "good morning routine"
    \/ needle = "temperature" /\ haystack \in {"measure_temperature", "target_temperature",
                                               "light_temperature"}
\* str.startswith(prefix) on capability names
StartsWith(str, prefix) ==
    \/ prefix = "measure_" /\ str \in {"measure_temperature", "measure_humidity",
                                       "measure_battery", "measure_power"}
    \/ prefix = "alarm_" /\ str \in {"alarm_battery", "alarm_motion", "alarm_contact",
                                     "alarm_smoke", "alarm_co", "alarm_water", "alarm_generic",
                                     "alarm_tamper"}
\* bool(value)
Truthy(value) == value.n # 0 \/ value.s # ""
\* the order in which a device map is iterated
DeviceOrder == <<"light1", "light2", "sensor1", "thermostat1", "socket1">>
Max(a, b) == IF a >= b THEN a ELSE b
\* the answer to the k-th capability write of a tool
Answer(ws, k) == IF k \in DOMAIN ws THEN ws[k] ELSE <<Ok200, Ok200>>

handle_get_devices(c, t, r, body) ==
    LET got == get_devices(c, t, r, body) IN
    IF got.err # NoErr THEN Caught(got, "Fout bij ophalen devices: {e}")
    ELSE Returned(got, FALSE, "Gevonden {n} devices:", Cardinality(DOMAIN got.devices))

\* a variant that reports success whatever the write did
handle_control_device_Silent(c, device_id, capability, value, t, r, body, r1, r2) ==
    LET dev == get_device(c, device_id, t, r, body) IN
    IF dev.err # NoErr THEN Caught(dev, "[X] Fout bij bedienen device: {e}")
    ELSE LET set == After(dev, set_capability_value(dev.c, device_id, capability, value, r1, r2))
         IN [Returned(set, FALSE, "[OK] Device '{name}' capability '{cap}' is gezet naar '{value}'", 0)
               EXCEPT !.raised = IF set.err # NoErr THEN <<set.err>> ELSE <<>>]

\* handle_control_device writing before it looks the device up
handle_control_device_WritesFirst(c, device_id, capability, value, t, r, body, r1, r2) ==
    LET set == set_capability_value(c, device_id, capability, value, r1, r2) IN
    IF set.err # NoErr THEN Caught(set, "[X] Fout bij bedienen device: {e}")
    ELSE LET dev == After(set, get_device(set.c, device_id, t, r, body))
         IN IF dev.err # NoErr THEN Caught(dev, "[X] Fout bij bedienen device: {e}")
            ELSE Returned(dev, FALSE,
                          "[OK] Device '{name}' capability '{cap}' is gezet naar '{value}'", 0)

handle_control_device(c, device_id, capability, value, t, r, body, r1, r2) ==
    LET dev == get_device(c, device_id, t, r, body) IN
    IF dev.err # NoErr THEN Caught(dev, "[X] Fout bij bedienen device: {e}")
    ELSE LET set == After(dev, set_capability_value(dev.c, device_id, capability, value, r1, r2))
         IN IF set.err # NoErr THEN Caught(set, "[X] Fout bij bedienen device: {e}")
            ELSE Returned(set, FALSE,
                          "[OK] Device '{name}' capability '{cap}' is gezet naar '{value}'", 0)

handle_get_device_status(c, device_id, t, r, body) ==
    LET dev == get_device(c, device_id, t, r, body) IN
    IF dev.err # NoErr THEN Caught(dev, "[X] Fout bij ophalen device status: {e}")
    ELSE Returned(dev, FALSE, "Status van '{name}':",
                  Cardinality(DOMAIN dev.devices[device_id].capabilitiesObj))

\* device_class is "" where the argument is absent
handle_find_devices_by_zone(c, zone_name, device_class, t, r, body) ==
    LET got == get_devices(c, t, r, body) IN
    IF got.err # NoErr THEN Caught(got, "[X] Fout bij zoeken devices: {e}")
    ELSE LET matching_devices ==
                 {d \in DOMAIN got.devices :
                    /\ Contains(Lower(got.devices[d].zoneName), Lower(zone_name))
                    /\ (device_class = "" \/ got.devices[d].class = device_class)}
         IN IF matching_devices # {}
            THEN Returned(got, FALSE, "Gevonden {n} devices in '{zone}':",
                          Cardinality(matching_devices))
            ELSE Returned(got, FALSE, "Geen devices gevonden in zone '{zone}'", 0)

\* LightWrites without the floor of 0.01 under the dim value
LightWrites_NoFloor(action, brightness, color_temperature, capabilities) ==
    IF action = "on"
    THEN (IF brightness # PyNone /\ "dim" \in DOMAIN capabilities
          THEN << <<"dim", PyFloat(brightness.n \div 100)>>, <<"onoff", PyBool(TRUE)>> >>
          ELSE << <<"onoff", PyBool(TRUE)>> >>)
         \o (IF color_temperature # PyNone /\ "light_temperature" \in DOMAIN capabilities
             THEN << <<"light_temperature", PyFloat(color_temperature.n \div 100)>> >>
             ELSE <<>>)
    ELSE IF action = "off" THEN << <<"onoff", PyBool(FALSE)>> >>
    ELSE IF action = "toggle"
    THEN LET current_state == IF "onoff" \in DOMAIN capabilities
                              THEN capabilities["onoff"].value ELSE PyBool(FALSE)
         IN << <<"onoff", PyBool(~Truthy(current_state))>> >>
    ELSE <<>>

\* the capability writes control_lights_in_zone makes for one light, in order
LightWrites(action, brightness, color_temperature, capabilities) ==
    IF action = "on"
    THEN (IF brightness # PyNone /\ "dim" \in DOMAIN capabilities
          THEN << <<"dim", PyFloat(Max(Scale \div 100, brightness.n \div 100))>>,
                  <<"onoff", PyBool(TRUE)>> >>
          ELSE << <<"onoff", PyBool(TRUE)>> >>)
         \o (IF color_temperature # PyNone /\ "light_temperature" \in DOMAIN capabilities
             THEN << <<"light_temperature", PyFloat(color_temperature.n \div 100)>> >>
             ELSE <<>>)
    ELSE IF action = "off" THEN << <<"onoff", PyBool(FALSE)>> >>
    ELSE IF action = "toggle"
    THEN LET current_state == IF "onoff" \in DOMAIN capabilities
                              THEN capabilities["onoff"].value ELSE PyBool(FALSE)
         IN << <<"onoff", PyBool(~Truthy(current_state))>> >>
    ELSE <<>>

\* set_capability_value for each of writes in turn until one raises; the
\* first of them is the k-th write of the tool and set is what it left behind
RECURSIVE WriteAll(_, _, _, _, _)
WriteAll(start, device_id, writes, ws, k) ==
    IF writes = <<>> THEN start
    ELSE CHOOSE out \in
           {IF set.err # NoErr THEN set
            ELSE WriteAll(set, device_id, Tail(writes), ws, k + 1) :
              set \in {After(start, set_capability_value(start.c, device_id, writes[1][1],
                                                         writes[1][2], Answer(ws, k)[1],
                                                         Answer(ws, k)[2]))}} : TRUE

\* a loop that ends at the first light whose write raised
RECURSIVE LightsLoop_StopsAtFailure(_, _, _, _, _, _, _)
LightsLoop_StopsAtFailure(h, lights, devices, action, brightness, color_temperature, ws) ==
    IF lights = <<>> \/ h.raised # <<>> THEN h
    ELSE CHOOSE out \in
           {LET raised == IF done.err # NoErr THEN Append(h.raised, done.err) ELSE h.raised
            IN LightsLoop_StopsAtFailure(
                   Handled(done.c, done.reqs, done.resps, raised,
                           [Reply(raised # <<>>, h.reply.kind, h.reply.n + 1, raised)
                               EXCEPT !.lines = Append(h.reply.lines,
                                                       <<Head(lights), done.err = NoErr>>)]),
                   Tail(lights), devices, action, brightness, color_temperature, ws) :
              done \in {WriteAll(Result(h.c, h.reqs, h.resps, NoErr, NoDevices), Head(lights),
                                 LightWrites(action, brightness, color_temperature,
                                             devices[Head(lights)].capabilitiesObj),
                                 ws, 3 * h.reply.n + 1)}} : TRUE

\* the loop of control_lights_in_zone over the lights found: a light whose
\* write raises gets a failure line and the loop goes on; n counts the lights.
\* done is what the writes of the light at the head left behind.
RECURSIVE LightsLoop(_, _, _, _, _, _, _)
LightsLoop(h, lights, devices, action, brightness, color_temperature, ws) ==
    IF lights = <<>> THEN h
    ELSE CHOOSE out \in
           {LET raised == IF done.err # NoErr THEN Append(h.raised, done.err) ELSE h.raised
                results == IF action \in {"on", "off", "toggle"} \/ done.err # NoErr
                           THEN Append(h.reply.lines, <<Head(lights), done.err = NoErr>>)
                           ELSE h.reply.lines
            IN LightsLoop(Handled(done.c, done.reqs, done.resps, raised,
                                  [Reply(raised # <<>>, h.reply.kind, h.reply.n + 1, raised)
                                      EXCEPT !.lines = results]),
                          Tail(lights), devices, action, brightness, color_temperature, ws) :
              done \in {WriteAll(Result(h.c, h.reqs, h.resps, NoErr, NoDevices), Head(lights),
                                 LightWrites(action, brightness, color_temperature,
                                             devices[Head(lights)].capabilitiesObj),
                                 ws, 3 * h.reply.n + 1)}} : TRUE

handle_control_lights_in_zone(c, zone_name, action, brightness, color_temperature, t, r, body, ws) ==
    LET got == get_devices(c, t, r, body) IN
    IF got.err # NoErr THEN Caught(got, "[X] Fout bij bedienen lichten: {e}")
    ELSE LET InZone(d) ==
                 /\ d \in DOMAIN got.devices
                 /\ Contains(Lower(got.devices[d].zoneName), Lower(zone_name))
                 /\ got.devices[d].class = "light"
             lights == SelectSeq(DeviceOrder, InZone)
         IN IF lights = <<>>
            THEN Returned(got, FALSE, "Geen lichten gevonden in zone '{zone}'", 0)
            ELSE LightsLoop(Returned(got, FALSE, "Lichten in '{zone}' bediend:", 0), lights,
                            got.devices, action, brightness, color_temperature, ws)

handle_set_thermostat_temperature(c, device_id, temperature, t, r, body, r1, r2) ==
    LET dev == get_device(c, device_id, t, r, body) IN
    IF dev.err # NoErr THEN Caught(dev, "[X] Fout bij instellen thermostaat: {e}")
    ELSE IF dev.devices[device_id].class # "thermostat"
    THEN Returned(dev, TRUE, "[X] Device '{name}' is geen thermostaat", 0)
    ELSE IF "target_temperature" \notin DOMAIN dev.devices[device_id].capabilitiesObj
    THEN Returned(dev, TRUE, "[X] Thermostaat '{name}' heeft geen target_temperature capability", 0)
    ELSE LET set == After(dev, set_capability_value(dev.c, device_id, "target_temperature",
                                                    temperature, r1, r2))
         IN IF set.err # NoErr THEN Caught(set, "[X] Fout bij instellen thermostaat: {e}")
            ELSE Returned(set, FALSE, "[OK] Thermostaat '{name}' ingesteld op {t} C", 0)

\* handle_set_light_color without its class and capability checks
handle_set_light_color_Unchecked(c, device_id, hue, saturation, brightness, t, r, body, ws) ==
    LET dev == get_device(c, device_id, t, r, body) IN
    IF dev.err # NoErr THEN Caught(dev, "[X] Fout bij instellen lamp kleur: {e}")
    ELSE LET capabilities == dev.devices[device_id].capabilitiesObj
             writes ==
                 (IF "light_mode" \in DOMAIN capabilities
                  THEN << <<"light_mode", PyStr("color")>> >> ELSE <<>>)
                 \o << <<"light_hue", PyFloat(hue.n \div 360)>>,
                       <<"light_saturation", PyFloat(saturation.n \div 100)>> >>
                 \o (IF brightness # PyNone /\ "dim" \in DOMAIN capabilities
                     THEN << <<"dim", PyFloat(Max(Scale \div 100, brightness.n \div 100))>>,
                             <<"onoff", PyBool(TRUE)>> >>
                     ELSE <<>>)
             done == WriteAll(dev, device_id, writes, ws, 1)
         IN IF done.err # NoErr THEN Caught(done, "[X] Fout bij instellen lamp kleur: {e}")
            ELSE Returned(done, FALSE, "[OK] Lamp '{name}' kleur ingesteld", Len(writes))

handle_set_light_color(c, device_id, hue, saturation, brightness, t, r, body, ws) ==
    LET dev == get_device(c, device_id, t, r, body) IN
    IF dev.err # NoErr THEN Caught(dev, "[X] Fout bij instellen lamp kleur: {e}")
    ELSE LET capabilities == dev.devices[device_id].capabilitiesObj IN
         IF dev.devices[device_id].class # "light"
         THEN Returned(dev, TRUE, "[X] Device '{name}' is geen lamp", 0)
         ELSE IF {"light_hue", "light_saturation"} \ DOMAIN capabilities # {}
         THEN Returned(dev, TRUE, "[X] Lamp '{name}' heeft geen kleur ondersteuning",
                       Cardinality({"light_hue", "light_saturation"} \ DOMAIN capabilities))
         ELSE LET writes ==
                      (IF "light_mode" \in DOMAIN capabilities
                       THEN << <<"light_mode", PyStr("color")>> >> ELSE <<>>)
                      \o << <<"light_hue", PyFloat(hue.n \div 360)>>,
                            <<"light_saturation", PyFloat(saturation.n \div 100)>> >>
                      \o (IF brightness # PyNone /\ "dim" \in DOMAIN capabilities
                          THEN << <<"dim", PyFloat(Max(Scale \div 100, brightness.n \div 100))>>,
                                  <<"onoff", PyBool(TRUE)>> >>
                          ELSE <<>>)
                  done == WriteAll(dev, device_id, writes, ws, 1)
              IN IF done.err # NoErr THEN Caught(done, "[X] Fout bij instellen lamp kleur: {e}")
                 ELSE Returned(done, FALSE, "[OK] Lamp '{name}' kleur ingesteld", Len(writes))

handle_get_sensor_readings(c, zone_name, sensor_type, t, r, body) ==
    LET got == get_devices(c, t, r, body) IN
    IF got.err # NoErr THEN Caught(got, "[X] Fout bij ophalen sensor data: {e}")
    ELSE LET sensors ==
                 {d \in DOMAIN got.devices :
                    /\ Contains(Lower(got.devices[d].zoneName), Lower(zone_name))
                    /\ \E cap_name \in DOMAIN got.devices[d].capabilitiesObj :
                         /\ StartsWith(cap_name, "measure_") \/ StartsWith(cap_name, "alarm_")
                         /\ sensor_type = "all" \/ Contains(cap_name, sensor_type)}
         IN IF sensors = {}
            THEN Returned(got, FALSE, "Geen sensors gevonden in zone '{zone}'", 0)
            ELSE Returned(got, FALSE, "Sensor metingen in '{zone}':", Cardinality(sensors))

handle_get_flows(c, r, body) ==
    LET got == get_flows(c, r, body) IN
    IF got.err # NoErr THEN Caught(got, "[X] Fout bij ophalen flows: {e}")
    ELSE Returned(got, FALSE, "Gevonden {n} flows:", Cardinality(got.flows))

handle_trigger_flow(c, flow_id, r, body, rs) ==
    LET got == get_flows(c, r, body) IN
    IF got.err # NoErr THEN Caught(got, "[X] Fout bij starten flow: {e}")
    ELSE IF flow_id \notin got.flows
    THEN Returned(got, TRUE, "[X] Flow met ID '{id}' niet gevonden", 0)
    ELSE LET run == After(got, trigger_flow(got.c, flow_id, rs)) IN
         IF run.err # NoErr THEN Caught(run, "[X] Fout bij starten flow: {e}")
         ELSE Returned(run, FALSE, "[OK] Flow '{name}' succesvol gestart", 0)

handle_find_flow_by_name(c, flow_name, r, body) ==
    LET got == get_flows(c, r, body) IN
    IF got.err # NoErr THEN Caught(got, "[X] Fout bij zoeken flows: {e}")
    ELSE LET matching_flows ==
                 {f \in got.flows : Contains(Lower(FlowName(f)), Lower(flow_name))}
         IN IF matching_flows # {}
            THEN Returned(got, FALSE, "Gevonden {n} flows met '{name}':",
                          Cardinality(matching_flows))
            ELSE Returned(got, FALSE, "Geen flows gevonden met naam '{name}'", 0)

\* the text handle_get_device_insights builds from non-empty entries: the
\* data point count, the state analysis of boolean values or the statistics
\* of numeric ones, and from five entries on the recent values, whose
\* format reads decimals and units, names the numeric branch alone binds
InsightsReport(got, vtype, n) ==
    IF vtype = "bool"
    THEN IF n >= 5
         THEN Handled(got.c, got.reqs, got.resps, <<Err("UnboundLocalError", 0)>>,
                      Reply(TRUE, "[X] Error getting device insights: {e}", 0,
                            <<Err("UnboundLocalError", 0)>>))
         ELSE Returned(got, FALSE, "Data Points, State Analysis", n)
    ELSE IF vtype = "float" THEN Returned(got, FALSE, "Data Points, Statistics", n)
    ELSE Returned(got, FALSE, "Data Points", n)

\* the except around the fetch of the entries
EntriesMissing(got) == got.err # NoErr

\* handle_get_device_insights: l1 answers the handler's listing of the logs,
\* l2 the listing get_insights_log_entries makes itself, e the entries request
handle_get_device_insights(c, device_id, capability, resolution, t, r, body, l1, l2, e) ==
    LET dev == get_device(c, device_id, t, r, body) IN
    IF dev.err.kind = "ValueError: Device not found" THEN Caught(dev, "[X] {e}")
    ELSE IF dev.err # NoErr THEN Caught(dev, "[X] Error getting device insights: {e}")
    ELSE IF capability \notin DOMAIN dev.devices[device_id].capabilitiesObj
    THEN Returned(dev, TRUE, "[X] Device {name} doesn't have capability '{capability}'", 0)
    ELSE LET listed == After(dev, get_insights_logs(dev.c, l1[1], l1[2], l1[3], l1[4]))
             logs == listed.data.flags
             log_key == <<device_id, capability>>
         IN IF log_key \notin DOMAIN logs
            THEN Returned(listed, TRUE, "[X] No insights log found for {name} - {capability}", 0)
            ELSE LET got == After(listed,
                                  get_insights_log_entries(listed.c, logs[log_key].uri, capability,
                                                           resolution, l2[1], l2[2], l2[3], l2[4],
                                                           e[1], e[2]))
                 IN IF EntriesMissing(got)
                    THEN Handled(got.c, got.reqs, got.resps, <<got.err>>,
                                 Reply(FALSE, "historical data not accessible", 0, <<>>))
                    ELSE IF got.data.n = 0
                    THEN Returned(got, FALSE, "no historical data available", 0)
                    ELSE InsightsReport(got, got.data.flags[1], got.data.n)

\* the InsightsTools class the server imports is the one of the package
\* tools/insights, which defines no handle_ method: looking one up raises
\* AttributeError inside the server function
MissingHandler(c) ==
    [c |-> c, reqs |-> <<>>, resps |-> <<>>, raised |-> <<Err("AttributeError", 0)>>,
     reply |-> NoReply, exc |-> Err("AttributeError", 0)]

\* a server function around its handler: an exception that leaves the
\* handler is returned as a text that starts with fout
ServerTool(h, fout) ==
    IF h.exc # NoErr
    THEN [h EXCEPT !.reply = Reply(TRUE, fout, 0, <<h.exc>>), !.exc = NoErr]
    ELSE h

(***************************************************************************)
(* State: the config flags, the session, the device cache with its         *)
(* timestamp, the clock time.time() reads and the server's phase.  Two     *)
(* history variables observe the calls: last is the operation whose result *)
(* is on its way to the caller (the fields before it, its arguments, the   *)
(* requests it sent and how it ended; op is "none" between calls, the      *)
(* transport making one call at a time), and written is the capability     *)
(* write that succeeded in the call before, if one did.                    *)
(***************************************************************************)
VARIABLES offline_mode, demo_mode, session, device_cache, cache_timestamp, now, phase,
          last, written

vars == <<offline_mode, demo_mode, session, device_cache, cache_timestamp, now, phase,
          last, written>>

Client ==
    [offline_mode |-> offline_mode, demo_mode |-> demo_mode, session |-> session,
     device_cache |-> device_cache, cache_timestamp |-> cache_timestamp]

Call(op, device_id, capability, value, flow_id, res) ==
    [op |-> op, device_id |-> device_id, capability |-> capability, value |-> value,
     flow_id |-> flow_id, pre |-> Client, at |-> now, after |-> written, reqs |-> res.reqs,
     resps |-> res.resps, err |-> res.err, devices |-> res.devices, flows |-> res.flows,
     data |-> res.data, tool |-> "", args |-> <<>>, raised |-> <<>>, reply |-> NoReply,
     verdict |-> Verdict(TRUE, PyNone, "")]

NoWrite == [valid |-> FALSE, device_id |-> "", capability |-> "", value |-> PyNone,
            declared |-> FALSE, before |-> NoCaps]
NoCall == Call("none", "", "", PyNone, "", Result(Client, <<>>, <<>>, NoErr, NoDevices))

\* the device map a get_devices() call would have served without a fetch
Served(c) == IF DemoActive(c) THEN demo_devices ELSE c.device_cache

\* a capability write ends: written remembers it if it succeeded
FinishWrite(res, device_id, capability, value) ==
    /\ offline_mode' = res.c.offline_mode
    /\ demo_mode' = res.c.demo_mode
    /\ session' = res.c.session
    /\ device_cache' = res.c.device_cache
    /\ cache_timestamp' = res.c.cache_timestamp
    /\ written' =
         IF res.err # NoErr THEN NoWrite
         ELSE LET known == device_id \in DOMAIN Served(Client) IN
              [valid |-> TRUE, device_id |-> device_id, capability |-> capability,
               value |-> validate_capability_value(capability, value).value,
               declared |-> known /\ capability \in DOMAIN Served(Client)[device_id].capabilitiesObj,
               before |-> IF known THEN Served(Client)[device_id].capabilitiesObj ELSE NoCaps]

\* the operation ends: the client's fields become res.c
Finish(res) ==
    /\ written' = NoWrite
    /\ offline_mode' = res.c.offline_mode
    /\ demo_mode' = res.c.demo_mode
    /\ session' = res.c.session
    /\ device_cache' = res.c.device_cache
    /\ cache_timestamp' = res.c.cache_timestamp

(***************************************************************************)
(* Inputs: the arguments the callers pass and the hub's answers.  An       *)
(* answer the operation never waits for plays no part, so it is fixed      *)
(* to Ok200 and not enumerated.                                            *)
(***************************************************************************)
DeviceIds == {"light1", "ghost"}
FlowIds == {"flow1"}

\* (device, capability, value) triples of a capability write
WriteArgs ==
    {<<"light1", "onoff", PyStr("ON")>>, <<"light1", "onoff", PyStr("banana")>>,
     <<"light1", "dim", PyInt(50)>>, <<"light1", "dim", PyInt(150)>>,
     <<"light1", "dim", PyFloat(8000)>>, <<"light1", "custom_cap", PyInt(150)>>,
     <<"light1", "light_hue", PyInt(120)>>,
     <<"sensor1", "onoff", PyInt(0)>>, <<"ghost", "dim", PyStr("0.5")>>}

\* the answer to the device-list request and, for a success, its body
DeviceAnswers ==
    {<<Ok200, b>> : b \in DeviceBodies}
        \cup {<<r, [ok |-> FALSE, devices |-> NoDevices]>> : r \in Responses \ {Ok200}}

\* the answer to the flow-list request and, for a success, its body
FlowBodies == {[ok |-> TRUE, flows |-> {"flow1"}], [ok |-> TRUE, flows |-> {}],
               [ok |-> FALSE, flows |-> {}]}
FlowAnswers ==
    {<<Ok200, b>> : b \in FlowBodies}
        \cup {<<r, [ok |-> FALSE, flows |-> {}]>> : r \in Responses \ {Ok200}}

\* the answers to the PUT and to the POST that follows a 405
WriteAnswers ==
    {<<r1, r2>> \in Responses \X Responses : r1.status # 405 => r2 = Ok200}

\* the answers to the flow-trigger variants
TriggerResponses == {r \in Responses : r.status \in {200, 401, 404, 500} \/ r.exc = "ConnectTimeout"}
TriggerContinues(r) == r.status = 404 \/ r.exc # ""
TriggerScripts ==
    {rs \in [1..4 -> TriggerResponses] :
        \A i \in 1..3 : ~TriggerContinues(rs[i]) => \A j \in (i + 1)..4 : rs[j] = Ok200}

\* the answers to the reads of insights and energy data
ReadResponses == {r \in Responses : r.status \in {200, 401} \/ r.exc = "ConnectTimeout"}
DimLog == LogEntry(TRUE, "homey:device:light1:dim", TRUE, "homey:device:light1", "dim")
OnoffLog == LogEntry(TRUE, "homey:device:light1:onoff", TRUE, "homey:device:light1", "onoff")
NoBody == [ok |-> FALSE, shape |-> "", raw |-> <<>>]
LogBodies ==
    {[ok |-> TRUE, shape |-> "list", raw |-> <<DimLog, OnoffLog>>],
     [ok |-> TRUE, shape |-> "dict",
      raw |-> [k \in {<<"light1", "dim">>} |->
                 LogRecord("dim", "homey:device:light1:dim", "homey:device:light1")]],
     NoBody}
LogAnswers ==
    {<<r1, b1, r2, b2>> \in ReadResponses \X LogBodies \X ReadResponses \X LogBodies :
        /\ r1 # Ok200 => b1 = NoBody
        /\ r2 # Ok200 => b2 = NoBody
        /\ LogHit(r1, b1) => (r2 = Ok200 /\ b2 = NoBody)}
\* storage answers: every endpoint the same, but for one
StorageScripts ==
    {[i \in 1..3 |-> IF i = k THEN r2 ELSE r] : r \in ReadResponses, r2 \in ReadResponses, k \in 1..3}
StorageLooks == {<<FALSE, FALSE, FALSE>>, <<TRUE, FALSE, FALSE>>, <<FALSE, FALSE, TRUE>>}
ShortLogAnswers ==
    {a \in LogAnswers : a[1] = a[3] \/ LogHit(a[1], a[2])}
\* test_endpoints answers: every endpoint the same, but for one
ProbeScripts ==
    {[i \in 1..14 |-> IF i = k THEN r2 ELSE r] :
        r \in ReadResponses, r2 \in ReadResponses, k \in {1, 14}}

Init ==
    /\ offline_mode \in BOOLEAN
    /\ demo_mode \in BOOLEAN
    /\ session = FALSE
    /\ device_cache = NoDevices
    /\ cache_timestamp = 0
    /\ now = CacheTTL
    /\ phase = "new"
    /\ written = NoWrite
    /\ last = NoCall

\* initialize_server: connect(); a failure is fatal unless a demo flag is set
InitializeServer ==
    /\ phase = "new"
    /\ \E r \in Responses :
         LET res == connect(Client, r) IN
         /\ Finish(res)
         /\ last' = Call("connect", "", "", PyNone, "", res)
         /\ phase' = IF res.err # NoErr /\ ~DemoActive(res.c) THEN "failed" ELSE "ready"
    /\ UNCHANGED now

Idle == phase = "ready" /\ last.op = "none"

Tick ==
    /\ Idle
    /\ now < MaxTime
    /\ now' = now + 1
    /\ last' = [last EXCEPT !.at = now + 1]
    /\ UNCHANGED <<offline_mode, demo_mode, session, device_cache, cache_timestamp, phase,
                   written>>

\* the result reaches the caller; the transport may make its next call
ReturnToCaller ==
    /\ last.op # "none"
    /\ last' = NoCall
    /\ UNCHANGED <<offline_mode, demo_mode, session, device_cache, cache_timestamp, now, phase,
                   written>>

GetDevices ==
    /\ Idle
    /\ \E a \in DeviceAnswers :
         LET res == get_devices(Client, now, a[1], a[2]) IN
         /\ Finish(res)
         /\ last' = Call("get_devices", "", "", PyNone, "", res)
    /\ UNCHANGED <<now, phase>>

GetDevice ==
    /\ Idle
    /\ \E device_id \in DeviceIds, a \in DeviceAnswers :
         LET res == get_device(Client, device_id, now, a[1], a[2]) IN
         /\ Finish(res)
         /\ last' = Call("get_device", device_id, "", PyNone, "", res)
    /\ UNCHANGED <<now, phase>>

SetCapabilityValue ==
    /\ Idle
    /\ \E w \in WriteArgs, a \in WriteAnswers :
         LET res == set_capability_value(Client, w[1], w[2], w[3], a[1], a[2]) IN
         /\ FinishWrite(res, w[1], w[2], w[3])
         /\ last' = Call("set_capability_value", w[1], w[2], w[3], "", res)
    /\ UNCHANGED <<now, phase>>

GetFlows ==
    /\ Idle
    /\ \E a \in FlowAnswers :
         LET res == get_flows(Client, a[1], a[2]) IN
         /\ Finish(res)
         /\ last' = Call("get_flows", "", "", PyNone, "", res)
    /\ UNCHANGED <<now, phase>>

TriggerFlow ==
    /\ Idle
    /\ \E flow_id \in FlowIds, rs \in TriggerScripts :
         LET res == trigger_flow(Client, flow_id, rs) IN
         /\ Finish(res)
         /\ last' = Call("trigger_flow", "", "", PyNone, flow_id, res)
    /\ UNCHANGED <<now, phase>>

\* the single-GET reads: get_insights_state, get_insights_log and the energy reads
SimpleRead ==
    /\ Idle
    /\ \E endpoint \in SimpleReadEndpoints, r \in ReadResponses :
         LET res == simple_read(Client, endpoint, r) IN
         /\ Finish(res)
         /\ last' = Call("simple_read", "", "", PyNone, "", res)
    /\ UNCHANGED <<now, phase>>

GetInsightsLogs ==
    /\ Idle
    /\ \E a \in LogAnswers :
         LET res == get_insights_logs(Client, a[1], a[2], a[3], a[4]) IN
         /\ Finish(res)
         /\ last' = Call("get_insights_logs", "", "", PyNone, "", res)
    /\ UNCHANGED <<now, phase>>

GetInsightsStorageInfo ==
    /\ Idle
    /\ \E rs \in StorageScripts, looks \in StorageLooks, a \in ShortLogAnswers :
         LET res == get_insights_storage_info(Client, rs, looks, a[1], a[2], a[3], a[4]) IN
         /\ Finish(res)
         /\ last' = Call("get_insights_storage_info", "", "", PyNone, "", res)
    /\ UNCHANGED <<now, phase>>

TestEndpoints ==
    /\ Idle
    /\ \E rs \in ProbeScripts :
         LET res == test_endpoints(Client, rs) IN
         /\ Finish(res)
         /\ last' = Call("test_endpoints", "", "", PyNone, "", res)
    /\ UNCHANGED <<now, phase>>

Next ==
    \/ InitializeServer
    \/ ReturnToCaller
    \/ Tick
    \/ GetDevices
    \/ GetDevice
    \/ SetCapabilityValue
    \/ GetFlows
    \/ TriggerFlow
    \/ SimpleRead
    \/ GetInsightsLogs
    \/ GetInsightsStorageInfo
    \/ TestEndpoints

Spec == Init /\ [][Next]_vars

(***************************************************************************)
(* The server as the transport drives it: one tool at a time.              *)
(***************************************************************************)
\* the arguments the tools are called with
ToolDeviceIds == {"light1", "light2", "thermostat1", "ghost"}
ControlArgs ==
    {<<"light1", "dim", PyInt(60)>>, <<"light1", "onoff", PyStr("banana")>>,
     <<"ghost", "dim", PyStr("0.5")>>}
ZoneNames == {"Living", "", "attic"}
DeviceClasses == {"", "light"}
LightCommands ==
    {<<"on", PyNone>>, <<"on", PyInt(60)>>, <<"on", PyInt(150)>>, <<"off", PyNone>>,
     <<"toggle", PyNone>>, <<"dance", PyNone>>}
DirectLightCommands ==
    {<<"on", PyInt(0), PyInt(50)>>, <<"on", PyNone, PyInt(50)>>, <<"off", PyInt(60), PyInt(50)>>}
Temperatures == {PyInt(20), PyInt(150)}
ColorArgs ==
    {<<PyInt(72), PyInt(90), PyNone>>, <<PyInt(72), PyInt(90), PyInt(60)>>,
     <<PyInt(0 - 10), PyInt(90), PyNone>>}
SensorTypes == {"all", "temperature", "power"}
FlowNames == {"Morning", "party"}
ToolFlowIds == {"flow1", "flow9"}

\* the hub's answers, enumerated only where the tool waits for them
Unasked == <<Ok200, [ok |-> FALSE, devices |-> NoDevices]>>
DeviceAnswersFor(c, t) ==
    IF DemoActive(c) \/ CacheFresh(c, t) THEN {Unasked} ELSE DeviceAnswers
FlowAnswersFor(c) ==
    IF DemoActive(c) THEN {<<Ok200, [ok |-> FALSE, flows |-> {}]>>} ELSE FlowAnswers
\* the answers to the capability writes of one tool call: all succeed but for one
MaxWrites == 5
SomeWriteAnswers ==
    {a \in WriteAnswers : /\ a[1].status \in {200, 405, 500} \/ a[1].exc = "ConnectTimeout"
                          /\ a[2].status \in {200, 500}}
WriteScripts ==
    {[i \in 1..MaxWrites |-> IF i = k THEN a ELSE <<Ok200, Ok200>>] :
        a \in SomeWriteAnswers, k \in 1..MaxWrites}
WriteAnswersFor(c) == IF DemoActive(c) THEN {<<Ok200, Ok200>>} ELSE SomeWriteAnswers
WriteScriptsFor(c) ==
    IF DemoActive(c) THEN {[i \in 1..MaxWrites |-> <<Ok200, Ok200>>]} ELSE WriteScripts
TriggerScriptsFor(c) == IF DemoActive(c) THEN {[i \in 1..4 |-> Ok200]} ELSE TriggerScripts

\* the tool's text reaches the transport; args are the tool's arguments and,
\* for a tool that writes capabilities, the device map get_devices() gave its
\* handler with the exception it raised instead, if it did
ToolCall(name, args, h) ==
    [NoCall EXCEPT !.op = "tool", !.tool = name, !.args = args, !.reqs = h.reqs,
                   !.resps = h.resps, !.err = h.exc, !.raised = h.raised, !.reply = h.reply]
FinishTool(name, args, h) ==
    /\ offline_mode' = h.c.offline_mode
    /\ demo_mode' = h.c.demo_mode
    /\ session' = h.c.session
    /\ device_cache' = h.c.device_cache
    /\ cache_timestamp' = h.c.cache_timestamp
    /\ written' = NoWrite
    /\ last' = ToolCall(name, args, h)
    /\ UNCHANGED <<now, phase>>

ToolGetDevices ==
    /\ Idle
    /\ \E a \in DeviceAnswersFor(Client, now) :
         FinishTool("get_devices", <<>>, ServerTool(handle_get_devices(Client, now, a[1], a[2]),
                               "Fout bij ophalen devices: {e}"))

ToolControlDevice ==
    /\ Idle
    /\ \E w \in ControlArgs, a \in DeviceAnswersFor(Client, now), b \in WriteAnswersFor(Client) :
         FinishTool("control_device", 
                    [device_id |-> w[1], capability |-> w[2], value |-> w[3],
                     devices |-> get_devices(Client, now, a[1], a[2]).devices,
                     err |-> get_devices(Client, now, a[1], a[2]).err],
                    ServerTool(handle_control_device(Client, w[1], w[2], w[3], now, a[1], a[2], b[1], b[2]),
                               "Fout bij bedienen device: {e}"))

ToolGetDeviceStatus ==
    /\ Idle
    /\ \E device_id \in ToolDeviceIds, a \in DeviceAnswersFor(Client, now) :
         FinishTool("get_device_status", [device_id |-> device_id],
                    ServerTool(handle_get_device_status(Client, device_id, now, a[1], a[2]),
                               "Fout bij ophalen device status: {e}"))

ToolFindDevicesByZone ==
    /\ Idle
    /\ \E zone_name \in ZoneNames, device_class \in DeviceClasses,
          a \in DeviceAnswersFor(Client, now) :
         FinishTool("find_devices_by_zone", [zone_name |-> zone_name, device_class |-> device_class],
                    ServerTool(handle_find_devices_by_zone(Client, zone_name, device_class, now, a[1], a[2]),
                               "Fout bij zoeken devices: {e}"))

ToolControlLightsInZone ==
    /\ Idle
    /\ \E zone_name \in ZoneNames, cmd \in LightCommands, a \in DeviceAnswersFor(Client, now),
          ws \in WriteScriptsFor(Client) :
         FinishTool("control_lights_in_zone", 
                    [zone_name |-> zone_name, action |-> cmd[1], brightness |-> cmd[2],
                     color_temperature |-> PyNone,
                     devices |-> get_devices(Client, now, a[1], a[2]).devices,
                     err |-> get_devices(Client, now, a[1], a[2]).err],
                    ServerTool(handle_control_lights_in_zone(Client, zone_name, cmd[1], cmd[2], PyNone, now, a[1], a[2], ws),
                               "Fout bij bedienen lichten: {e}"))

\* the handler called with a color_temperature, which the server function
\* does not pass on
HandleControlLightsInZone ==
    /\ Idle
    /\ \E zone_name \in {"Living"}, cmd \in DirectLightCommands,
          a \in DeviceAnswersFor(Client, now), ws \in WriteScriptsFor(Client) :
         FinishTool("control_lights_in_zone",
                    [zone_name |-> zone_name, action |-> cmd[1], brightness |-> cmd[2],
                     color_temperature |-> cmd[3],
                     devices |-> get_devices(Client, now, a[1], a[2]).devices,
                     err |-> get_devices(Client, now, a[1], a[2]).err],
                    handle_control_lights_in_zone(Client, zone_name, cmd[1], cmd[2], cmd[3], now, a[1], a[2], ws))

ToolGetFlows ==
    /\ Idle
    /\ \E a \in FlowAnswersFor(Client) :
         FinishTool("get_flows", <<>>, ServerTool(handle_get_flows(Client, a[1], a[2]),
                               "Fout bij ophalen flows: {e}"))

ToolTriggerFlow ==
    /\ Idle
    /\ \E flow_id \in ToolFlowIds, a \in FlowAnswersFor(Client), rs \in TriggerScriptsFor(Client) :
         FinishTool("trigger_flow", [flow_id |-> flow_id], ServerTool(handle_trigger_flow(Client, flow_id, a[1], a[2], rs),
                               "Fout bij starten flow: {e}"))

ToolFindFlowByName ==
    /\ Idle
    /\ \E flow_name \in FlowNames, a \in FlowAnswersFor(Client) :
         FinishTool("find_flow_by_name", [flow_name |-> flow_name], ServerTool(handle_find_flow_by_name(Client, flow_name, a[1], a[2]),
                               "Fout bij zoeken flows: {e}"))

ToolSetThermostatTemperature ==
    /\ Idle
    /\ \E device_id \in ToolDeviceIds, temperature \in Temperatures,
          a \in DeviceAnswersFor(Client, now), b \in WriteAnswersFor(Client) :
         FinishTool("set_thermostat_temperature", 
                    [device_id |-> device_id, temperature |-> temperature,
                     devices |-> get_devices(Client, now, a[1], a[2]).devices,
                     err |-> get_devices(Client, now, a[1], a[2]).err],
                    ServerTool(handle_set_thermostat_temperature(Client, device_id, temperature, now, a[1], a[2], b[1], b[2]),
                               "Fout bij instellen thermostaat: {e}"))

ToolSetLightColor ==
    /\ Idle
    /\ \E device_id \in ToolDeviceIds, col \in ColorArgs, a \in DeviceAnswersFor(Client, now),
          ws \in WriteScriptsFor(Client) :
         FinishTool("set_light_color", 
                    [device_id |-> device_id, hue |-> col[1], saturation |-> col[2], brightness |-> col[3],
                     devices |-> get_devices(Client, now, a[1], a[2]).devices,
                     err |-> get_devices(Client, now, a[1], a[2]).err],
                    ServerTool(handle_set_light_color(Client, device_id, col[1], col[2], col[3], now, a[1], a[2], ws),
                               "Fout bij instellen lamp kleur: {e}"))

ToolGetSensorReadings ==
    /\ Idle
    /\ \E zone_name \in ZoneNames, sensor_type \in SensorTypes,
          a \in DeviceAnswersFor(Client, now) :
         FinishTool("get_sensor_readings", [zone_name |-> zone_name, sensor_type |-> sensor_type],
                    ServerTool(handle_get_sensor_readings(Client, zone_name, sensor_type, now, a[1], a[2]),
                               "Fout bij ophalen sensor data: {e}"))

ToolGetDeviceInsights ==
    /\ Idle
    /\ FinishTool("get_device_insights", <<>>, ServerTool(MissingHandler(Client), "Fout bij ophalen device insights: {e}"))

ToolGetEnergyInsights ==
    /\ Idle
    /\ FinishTool("get_energy_insights", <<>>, ServerTool(MissingHandler(Client), "Fout bij ophalen energie insights: {e}"))

ToolGetLiveInsights ==
    /\ Idle
    /\ FinishTool("get_live_insights", <<>>, ServerTool(MissingHandler(Client), "Fout bij live insights: {e}"))

ToolNext ==
    \/ InitializeServer
    \/ ReturnToCaller
    \/ Tick
    \/ ToolGetDevices
    \/ ToolControlDevice
    \/ ToolGetDeviceStatus
    \/ ToolFindDevicesByZone
    \/ ToolControlLightsInZone
    \/ HandleControlLightsInZone
    \/ ToolGetFlows
    \/ ToolTriggerFlow
    \/ ToolFindFlowByName
    \/ ToolSetThermostatTemperature
    \/ ToolSetLightColor
    \/ ToolGetSensorReadings
    \/ ToolGetDeviceInsights
    \/ ToolGetEnergyInsights
    \/ ToolGetLiveInsights

ToolSpec == Init /\ [][ToolNext]_vars

(***************************************************************************)
(* The validator on its own.  validate_capability_value is a pure function *)
(* of a capability name and a value; ValidatorSpec applies it to names of  *)
(* every class, to an alarm the code does not list, to a name of no class, *)
(* and to values on both sides of every boundary.  last.verdict is the     *)
(* tuple it returned.  Revalidate feeds an accepted value back in.         *)
(***************************************************************************)
CapabilityNames ==
    BooleanCapabilities \cup RangeCapabilities \cup TemperatureCapabilities
        \cup PowerCapabilities \cup PercentageCapabilities \cup EnumCapabilities
        \cup {"alarm_tamper", "speaker_playing"}

ValidatorValues ==
    {PyBool(TRUE), PyBool(FALSE), PyNone}
        \cup {PyInt(i) : i \in {0 - 51, 0 - 50, 0 - 1, 0, 1, 2, 20, 50, 100, 101, 150}}
        \cup {PyFloat(x) : x \in {0 - 50 * Scale - 1, 0 - 1, Scale \div 2, Scale, Scale + 1,
                                   100 * Scale, 100 * Scale + 1}}
        \cup {PyStr(str) : str \in {"ON", "true", "Yes", "1", "OFF", "FALSE", "No", "0", "banana",
                                     "", "50", "0.5", "150", "color", "temperature"}}

Validate ==
    /\ last.op = "none"
    /\ \E capability \in CapabilityNames, value \in ValidatorValues :
          last' = [NoCall EXCEPT !.op = "validate", !.capability = capability, !.value = value,
                                 !.verdict = validate_capability_value(capability, value)]
    /\ UNCHANGED <<offline_mode, demo_mode, session, device_cache, cache_timestamp, now, phase,
                   written>>

Revalidate ==
    /\ last.op = "validate"
    /\ last.verdict.is_valid
    /\ last' = [last EXCEPT !.op = "revalidate", !.value = last.verdict.value,
                            !.verdict = validate_capability_value(last.capability,
                                                                  last.verdict.value)]
    /\ UNCHANGED <<offline_mode, demo_mode, session, device_cache, cache_timestamp, now, phase,
                   written>>

ValidatorNext ==
    \/ Validate
    \/ Revalidate
    \/ ReturnToCaller

ValidatorSpec == Init /\ [][ValidatorNext]_vars

(***************************************************************************)
(* The insights reads of the client on the log lists and maps a hub can    *)
(* answer with: logs without an ownerId, without an id, with an empty id,  *)
(* of an owner whose URI has two parts, and two logs of one owner.         *)
(***************************************************************************)
MaxLogs == 2
RawLogs ==
    {DimLog, OnoffLog,
     LogEntry(TRUE, "homey:device:light1:dim", TRUE, "homey:device:light1", ""),
     LogEntry(TRUE, "homey:device:light1:onoff", TRUE, "homey:device:light1", ""),
     LogEntry(FALSE, "", TRUE, "homey:device:light1", "dim"),
     LogEntry(TRUE, "", TRUE, "homey:device:sensor1", "measure_temperature"),
     LogEntry(TRUE, "homey:weather:temp", TRUE, "homey:weather", "temp")}
RawLogLists == UNION {[1..n -> RawLogs] : n \in 0..MaxLogs}
RawLogMaps ==
    {[k \in {<<"light1", "dim">>} |->
        LogRecord("dim", "homey:device:light1:dim", "homey:device:light1")],
     [k \in {<<"light1", "dim">>} |-> LogRecord("dim", "", "homey:device:light1")],
     [k \in {<<"light1", "onoff">>} |-> LogRecord("onoff", "log1", "homey:device:light1")]}
RawLogBodies ==
    {[ok |-> TRUE, shape |-> "list", raw |-> l] : l \in RawLogLists}
        \cup {[ok |-> TRUE, shape |-> "dict", raw |-> m] : m \in RawLogMaps}
\* the first endpoint answers with a body, or fails and the second answers
\* with one, or both fail
RawLogAnswers ==
    {<<Ok200, b, Ok200, NoBody>> : b \in RawLogBodies}
        \cup {<<r, NoBody, Ok200, b>> : r \in ReadResponses, b \in RawLogBodies}
        \cup {<<r, NoBody, r, NoBody>> : r \in ReadResponses}

LogUris == {"homey:device:light1", "light1", "homey:device:sensor1", "homey:weather"}
LogIds == {"dim", "onoff", "measure_temperature", "temp", ""}
Resolutions == {"1h", "1d"}
\* an entries body: n entries whose values v are all of type vtype
ManyEntries == 5
NoEntries == [ok |-> FALSE, n |-> 0, vtype |-> ""]
EntryBodies ==
    {[ok |-> TRUE, n |-> n, vtype |-> vtype] : n \in {2, ManyEntries}, vtype \in {"bool", "float", "str"}}
        \cup {[ok |-> TRUE, n |-> 0, vtype |-> ""], NoEntries}
EntryAnswers ==
    {<<Ok200, b>> : b \in EntryBodies}
        \cup {<<r, NoEntries>> : r \in ReadResponses \ {Ok200}}

ListInsightsLogs ==
    /\ Idle
    /\ \E a \in RawLogAnswers :
         LET res == get_insights_logs(Client, a[1], a[2], a[3], a[4])
             body == IF LogHit(a[1], a[2]) THEN a[2] ELSE a[4] IN
         /\ Finish(res)
         /\ last' = [Call("get_insights_logs", "", "", PyNone, "", res) EXCEPT !.args = body]
    /\ UNCHANGED <<now, phase>>

GetInsightsLogEntries ==
    /\ Idle
    /\ \E uri \in LogUris, log_id \in LogIds, resolution \in Resolutions,
          a \in RawLogAnswers, e \in EntryAnswers :
         LET res == get_insights_log_entries(Client, uri, log_id, resolution,
                                             a[1], a[2], a[3], a[4], e[1], e[2]) IN
         /\ Finish(res)
         /\ last' = [Call("get_insights_log_entries", DeviceOfUri(uri), log_id, PyNone, "", res)
                       EXCEPT !.args =
                         [uri |-> uri, log_id |-> log_id, resolution |-> resolution,
                          logs |-> get_insights_logs(Client, a[1], a[2], a[3], a[4]).data.flags]]
    /\ UNCHANGED <<now, phase>>

InsightsNext ==
    \/ InitializeServer
    \/ ListInsightsLogs
    \/ GetInsightsLogEntries
    \/ ReturnToCaller

InsightsSpec == Init /\ [][InsightsNext]_vars

(***************************************************************************)
(* handle_get_device_insights called on its class, as the repository's     *)
(* tests call it.                                                          *)
(***************************************************************************)
InsightArgs ==
    {<<"light1", "onoff">>, <<"light1", "dim">>, <<"sensor1", "measure_temperature">>,
     <<"light1", "light_hue">>, <<"ghost", "dim">>}
InsightLogAnswers ==
    {<<Ok200, b, Ok200, NoBody>> : b \in LogBodies}
        \cup {<<r, NoBody, r, NoBody>> : r \in ReadResponses \ {Ok200}}

HandleGetDeviceInsights ==
    /\ Idle
    /\ \E x \in InsightArgs, resolution \in Resolutions, a \in DeviceAnswersFor(Client, now),
          l1 \in InsightLogAnswers, l2 \in InsightLogAnswers, e \in EntryAnswers :
         FinishTool("get_device_insights",
                    [device_id |-> x[1], capability |-> x[2], resolution |-> resolution,
                     device |-> get_device(Client, x[1], now, a[1], a[2]),
                     logs |-> get_insights_logs(Client, l1[1], l1[2], l1[3], l1[4]).data.flags,
                     entries |->
                       LET logs == get_insights_logs(Client, l1[1], l1[2], l1[3], l1[4]).data.flags IN
                       IF <<x[1], x[2]>> \in DOMAIN logs
                       THEN get_insights_log_entries(Client, logs[<<x[1], x[2]>>].uri, x[2],
                                                     resolution, l2[1], l2[2], l2[3], l2[4],
                                                     e[1], e[2])
                       ELSE Read(Client, <<>>, <<>>, NoErr, NoData)],
                    handle_get_device_insights(Client, x[1], x[2], resolution, now, a[1], a[2],
                                               l1, l2, e))

ReportNext ==
    \/ InitializeServer
    \/ HandleGetDeviceInsights
    \/ ReturnToCaller

ReportSpec == Init /\ [][ReportNext]_vars

(***************************************************************************)
(* Two calls at once: a get_devices() and a set_capability_value() whose   *)
(* coroutines run on one event loop and give way at their awaits.  A       *)
(* coroutine is called, sent (suspended in its request), answered (the     *)
(* hub has produced the response) and returned.  The hub holds the device  *)
(* map in last.args.hub; the answer to the list request is the map at the  *)
(* moment the hub answers.  Time stands still while the two run.           *)
(***************************************************************************)
RaceWrites == {<<"light1", "dim", PyInt(50)>>, <<"light1", "onoff", PyStr("ON")>>}
RaceHubs == {HomeA, HomeB}
RaceResponses == {Ok200, [status |-> 500, exc |-> ""]}

Racing == last.op = "overlap"
Pending(refresh, write, hub) ==
    [refresh |-> refresh, write |-> write, hub |-> hub, body |-> NoDevices,
     get_answer |-> Ok200, put_answer |-> Ok200, saw_write |-> FALSE, fetched |-> FALSE,
     resumed |-> <<>>]

\* the transport hands over both calls
Overlap ==
    /\ Idle
    /\ ~DemoActive(Client)
    /\ \E w \in RaceWrites, hub \in RaceHubs :
          last' = [NoCall EXCEPT !.op = "overlap", !.device_id = w[1], !.capability = w[2],
                                 !.value = w[3], !.args = Pending("called", "called", hub)]
    /\ UNCHANGED <<offline_mode, demo_mode, session, device_cache, cache_timestamp, now, phase,
                   written>>

\* get_devices up to its await: a fresh cache is returned at once
RefreshSends ==
    /\ Racing /\ last.args.refresh = "called"
    /\ last' = [last EXCEPT !.args.refresh = IF CacheFresh(Client, now) THEN "returned" ELSE "sent"]
    /\ UNCHANGED <<offline_mode, demo_mode, session, device_cache, cache_timestamp, now, phase,
                   written>>

\* the hub answers the list request with the map it holds now
HubAnswersRefresh ==
    /\ Racing /\ last.args.refresh = "sent"
    /\ \E r \in RaceResponses :
          last' = [last EXCEPT !.args.refresh = "answered", !.args.get_answer = r,
                               !.args.body = last.args.hub,
                               !.args.saw_write = (last.args.write \in {"answered", "returned"}
                                                      /\ IsSuccess(last.args.put_answer))]
    /\ UNCHANGED <<offline_mode, demo_mode, session, device_cache, cache_timestamp, now, phase,
                   written>>

\* get_devices after its await
RefreshResumes ==
    /\ Racing /\ last.args.refresh = "answered"
    /\ LET res == get_devices(Client, now, last.args.get_answer,
                              [ok |-> TRUE, devices |-> last.args.body]) IN
       /\ device_cache' = res.c.device_cache
       /\ cache_timestamp' = res.c.cache_timestamp
       /\ last' = [last EXCEPT !.args.refresh = "returned", !.args.fetched = (res.err = NoErr),
                               !.args.resumed = Append(@, "refresh")]
    /\ UNCHANGED <<offline_mode, demo_mode, session, now, phase, written>>

\* set_capability_value up to its await
WriteSends ==
    /\ Racing /\ last.args.write = "called"
    /\ last' = [last EXCEPT !.args.write =
                  IF validate_capability_value(last.capability, last.value).is_valid
                  THEN "sent" ELSE "returned"]
    /\ UNCHANGED <<offline_mode, demo_mode, session, device_cache, cache_timestamp, now, phase,
                   written>>

\* the hub answers the PUT: a success has stored the value
HubAnswersWrite ==
    /\ Racing /\ last.args.write = "sent"
    /\ \E r \in RaceResponses :
          last' = [last EXCEPT !.args.write = "answered", !.args.put_answer = r,
                               !.args.hub =
                                 IF IsSuccess(r)
                                 THEN [@ EXCEPT ![last.device_id].capabilitiesObj[last.capability].value =
                                          validate_capability_value(last.capability, last.value).value]
                                 ELSE @]
    /\ UNCHANGED <<offline_mode, demo_mode, session, device_cache, cache_timestamp, now, phase,
                   written>>

\* set_capability_value after its await
WriteResumes ==
    /\ Racing /\ last.args.write = "answered"
    /\ LET res == set_capability_value(Client, last.device_id, last.capability, last.value,
                                       last.args.put_answer, Ok200) IN
       /\ FinishWrite(res, last.device_id, last.capability, last.value)
       /\ last' = [last EXCEPT !.args.write = "returned", !.err = res.err,
                               !.args.resumed = Append(@, "write")]
    /\ UNCHANGED <<now, phase>>

BothReturned == Racing /\ last.args.refresh = "returned" /\ last.args.write = "returned"

RaceNext ==
    \/ InitializeServer
    \/ Tick
    \/ GetDevices
    \/ Overlap
    \/ RefreshSends
    \/ HubAnswersRefresh
    \/ RefreshResumes
    \/ WriteSends
    \/ HubAnswersWrite
    \/ WriteResumes
    \/ ReturnToCaller

RaceSpec == Init /\ [][RaceNext]_vars

(***************************************************************************)
(* The claims.  Each is stated over the call in last: the fields before    *)
(* the call (last.pre), its arguments, the requests it sent with the       *)
(* hub's answers, the exception it raised, and the state it left.          *)
(***************************************************************************)
WasDemo == last.pre.offline_mode \/ last.pre.demo_mode
WasLive == ~last.pre.offline_mode /\ ~last.pre.demo_mode
FinalAnswer == last.resps[Len(last.resps)]
Rejected == ~validate_capability_value(last.capability, last.value).is_valid
Normalized == validate_capability_value(last.capability, last.value).value

\* C1 as stated: while offline_mode or demo_mode is set no operation of the
\* client, connect included, sends a request, and each one succeeds.
C1_AsStated ==
    (last.op # "none" /\ WasDemo) => (last.reqs = <<>> /\ last.err = NoErr)

\* C1 amended: while offline_mode is set, or demo_mode is set and the operation
\* is not connect, the operation sends no request; a read returns the synthetic
\* data, and nothing is raised but the validation error of a rejected value and
\* the not-found error of an unknown device id.
C1_DemoSendsNothing ==
    (last.op # "none" /\ WasDemo /\ (last.op = "connect" => last.pre.offline_mode)) =>
        /\ last.reqs = <<>>
        /\ last.err.kind \in {"", "ValueError: Invalid capability value",
                              "ValueError: Device not found"}
        /\ (last.op = "get_devices" => last.err = NoErr /\ last.devices = demo_devices)
        /\ (last.op \in {"simple_read", "get_insights_logs", "get_insights_storage_info"}
               => last.err = NoErr /\ last.data.kind = "demo")
        /\ (last.op = "test_endpoints" => last.err = NoErr /\ last.data.kind = "demo_mode")
        /\ (last.op \in {"get_flows", "trigger_flow"} => last.err = NoErr)
        /\ (last.op = "set_capability_value" /\ ~Rejected => last.err = NoErr)

C1_Witness ==
    /\ last.op = "set_capability_value"
    /\ last.pre.demo_mode /\ ~last.pre.offline_mode /\ last.pre.session
    /\ last.err = NoErr /\ last.reqs = <<>>

\* C2 as stated: with offline_mode unset, whatever makes the liveness probe
\* fail, connect() returns without raising, both flags are set, startup goes on.
C2_AsStated ==
    (last.op = "connect" /\ ~last.pre.offline_mode /\ ~IsSuccess(FinalAnswer)) =>
        (last.err = NoErr /\ offline_mode /\ demo_mode /\ phase = "ready")

\* C2 amended: with offline_mode unset, a probe that fails with a connect
\* timeout, an HTTP 401 or any exception that is not an HTTP error status makes
\* connect() return without raising with both flags set; any other HTTP error
\* status is re-raised with both flags unchanged, and startup then goes on
\* only if demo_mode was set.
C2_ConnectDegrades ==
    (last.op = "connect" /\ ~last.pre.offline_mode /\ ~IsSuccess(FinalAnswer)) =>
        IF FinalAnswer.exc # "" \/ FinalAnswer.status = 401
        THEN last.err = NoErr /\ offline_mode /\ demo_mode /\ phase = "ready"
        ELSE /\ last.err = Err("HTTPStatusError", FinalAnswer.status)
             /\ ~offline_mode
             /\ demo_mode = last.pre.demo_mode
             /\ phase = IF last.pre.demo_mode THEN "ready" ELSE "failed"

C2_Witness ==
    /\ last.op = "connect" /\ WasLive
    /\ FinalAnswer.exc = "" /\ FinalAnswer.status = 401
    /\ offline_mode /\ demo_mode /\ phase = "ready"

\* C3: a write the validator rejects raises the validation error, sends no
\* request and leaves the device cache as it was, in live and in demo mode.
C3_RejectedWriteSendsNothing ==
    (last.op = "set_capability_value" /\ Rejected) =>
        /\ last.err = Err("ValueError: Invalid capability value", 0)
        /\ last.reqs = <<>>
        /\ device_cache = last.pre.device_cache
        /\ cache_timestamp = last.pre.cache_timestamp

C3_Witness ==
    /\ last.op = "set_capability_value" /\ Rejected /\ WasDemo
    /\ last.err.kind = "ValueError: Invalid capability value"

\* C4: a live write of an accepted value sends PUT with the normalized value
\* first, then POST to the same path with the same body exactly when the PUT
\* was answered 405, nothing more, and raises exactly when the last answer is
\* not a success.
C4_PutThenPostOn405 ==
    (last.op = "set_capability_value" /\ WasLive /\ ~Rejected) =>
        /\ Len(last.reqs) \in {1, 2}
        /\ last.reqs[1] = [m |-> "PUT", p |-> "/api/manager/devices/device/{id}/capability/{cap}/",
                           a |-> last.device_id, b |-> last.capability, body |-> Normalized]
        /\ (Len(last.reqs) = 2) <=> (last.resps[1].exc = "" /\ last.resps[1].status = 405)
        /\ (Len(last.reqs) = 2) => last.reqs[2] = [last.reqs[1] EXCEPT !.m = "POST"]
        /\ (last.err # NoErr) <=> ~(FinalAnswer.exc = "" /\ FinalAnswer.status \in 200..299)

C4_Witness ==
    /\ last.op = "set_capability_value" /\ WasLive
    /\ Len(last.reqs) = 2 /\ last.err = NoErr
    /\ Normalized # last.value

\* C5: a live trigger_flow POSTs /trigger, /start, /run and the trailing-slash
\* root in that order, at most those four, returns success at the first 2xx
\* answer and sends nothing after it.
C5_VariantOrder ==
    (last.op = "trigger_flow" /\ WasLive) =>
        /\ Len(last.reqs) \in 1..4
        /\ \A i \in 1..Len(last.reqs) :
              last.reqs[i] =
                [m |-> "POST",
                 p |-> <<"/api/manager/flow/flow/{id}/trigger", "/api/manager/flow/flow/{id}/start",
                         "/api/manager/flow/flow/{id}/run", "/api/manager/flow/flow/{id}/">>[i],
                 a |-> last.flow_id, b |-> "", body |-> PyNone]
        /\ \A i \in 1..(Len(last.resps) - 1) :
              ~(last.resps[i].exc = "" /\ last.resps[i].status \in 200..299)
        /\ (last.err = NoErr) <=> (FinalAnswer.exc = "" /\ FinalAnswer.status \in 200..299)

C5_Witness ==
    /\ last.op = "trigger_flow" /\ WasLive
    /\ Len(last.reqs) = 4 /\ last.err = NoErr
    /\ \A i \in 1..3 : last.resps[i].status = 404

C7_AsStated ==
    (last.op = "get_devices" /\ WasLive /\ last.pre.cache_timestamp > 0) =>
        IF last.at - last.pre.cache_timestamp < CacheTTL
        THEN last.reqs = <<>> /\ last.err = NoErr /\ last.devices = last.pre.device_cache
        ELSE /\ last.reqs = <<[m |-> "GET", p |-> "/api/manager/devices/device/",
                               a |-> "", b |-> "", body |-> PyNone]>>
             /\ last.err = NoErr =>
                   device_cache = last.devices /\ cache_timestamp = last.at

\* C8 as stated: after a successful write of capability c of a device d that
\* declares c, the next get_device(d) reports c with the normalized value and
\* every other capability of d with the value it had before the write.
C8_AsStated ==
    (/\ last.op = "get_device" /\ last.err = NoErr
     /\ last.after.valid /\ last.after.declared
     /\ last.device_id = last.after.device_id) =>
        LET caps == last.devices[last.device_id].capabilitiesObj IN
        /\ last.after.capability \in DOMAIN caps
        /\ caps[last.after.capability].value = last.after.value
        /\ \A k \in DOMAIN last.after.before \ {last.after.capability} :
              k \in DOMAIN caps /\ caps[k].value = last.after.before[k].value

\* C8 amended: in live mode, after a successful write of capability c of a
\* device d cached with c, the next get_device(d) that is served from the
\* cache reports c with the normalized value and every other capability of d
\* with the value it had before the write.
C8_CachedReadSeesWrite ==
    (/\ last.op = "get_device" /\ last.err = NoErr
     /\ last.after.valid /\ last.after.declared
     /\ last.device_id = last.after.device_id
     /\ WasLive /\ last.reqs = <<>>) =>
        LET caps == last.devices[last.device_id].capabilitiesObj IN
        /\ last.after.capability \in DOMAIN caps
        /\ caps[last.after.capability].value = last.after.value
        /\ \A k \in DOMAIN last.after.before \ {last.after.capability} :
              k \in DOMAIN caps /\ caps[k].value = last.after.before[k].value

C8_Witness ==
    /\ last.op = "get_device" /\ last.err = NoErr /\ WasLive /\ last.reqs = <<>>
    /\ last.after.valid /\ last.after.declared
    /\ last.device_id = last.after.device_id
    /\ last.after.before[last.after.capability].value # last.after.value
    /\ last.devices[last.device_id].capabilitiesObj[last.after.capability].value
         = last.after.value

\* C9: a successful live write changes at most the value of the written
\* capability of the written device in the cache: no device and no capability
\* is added, every other value, every title and the timestamp stay.
C9_WritePatchesOneValue ==
    (last.op = "set_capability_value" /\ WasLive /\ last.err = NoErr) =>
        /\ cache_timestamp = last.pre.cache_timestamp
        /\ DOMAIN device_cache = DOMAIN last.pre.device_cache
        /\ \A d \in DOMAIN device_cache :
              LET new == device_cache[d]
                  old == last.pre.device_cache[d]
              IN /\ new.name = old.name /\ new.class = old.class
                 /\ new.zoneName = old.zoneName /\ new.available = old.available
                 /\ DOMAIN new.capabilitiesObj = DOMAIN old.capabilitiesObj
                 /\ \A k \in DOMAIN new.capabilitiesObj :
                       /\ new.capabilitiesObj[k].title = old.capabilitiesObj[k].title
                       /\ (d # last.device_id \/ k # last.capability) =>
                             new.capabilitiesObj[k].value = old.capabilitiesObj[k].value

C9_Witness ==
    /\ last.op = "set_capability_value" /\ WasLive /\ last.err = NoErr
    /\ device_cache # last.pre.device_cache
    /\ Cardinality(DOMAIN device_cache) = 2

\* C10: a tool operation lets no exception through to the transport, and when
\* an exception was raised to it from underneath (by a client operation or by
\* the dispatch to its handler) the text it returns carries a failure message
\* that prints that exception.
C10_ToolsCatchEverything ==
    (last.op = "tool") =>
        /\ last.err = NoErr
        /\ last.reply.kind # ""
        /\ last.raised # <<>> =>
              /\ last.reply.failure
              /\ \A i \in 1..Len(last.raised) :
                    \E j \in 1..Len(last.reply.errors) : last.reply.errors[j] = last.raised[i]

C10_Witness ==
    /\ last.op = "tool" /\ last.tool = "control_device" /\ WasLive
    /\ Len(last.reqs) = 2
    /\ last.raised = <<Err("HTTPStatusError", 500)>>
    /\ last.reply = Reply(TRUE, "[X] Fout bij bedienen device: {e}", 0, last.raised)

C12_AsStated ==
    (/\ last.op = "validate"
     /\ (last.capability = "onoff" \/ StartsWith(last.capability, "alarm_"))) =>
        LET v == last.value
            accepted(b) == last.verdict.is_valid /\ last.verdict.value = PyBool(b)
        IN CASE v.t = "bool" -> last.verdict.is_valid /\ last.verdict.value = v
             [] v.t = "int" -> accepted(v.n # 0)
             [] v.t = "str" /\ Lower(v.s) \in {"true", "1", "on", "yes"} -> accepted(TRUE)
             [] v.t = "str" /\ Lower(v.s) \in {"false", "0", "off", "no"} -> accepted(FALSE)
             [] OTHER -> /\ ~last.verdict.is_valid
                         /\ last.verdict.value = v
                         /\ last.verdict.message # ""

\* C13: the validator is idempotent on its own output: when it accepted a
\* value for a capability and normalized it to n, validating n for the same
\* capability returns (valid, n, empty note).  last.value is n here.
C13_Idempotent ==
    (last.op = "revalidate") =>
        last.verdict = [is_valid |-> TRUE, value |-> last.value, message |-> ""]

\* 0.02 is no input of the model: it is the percentage 2 after conversion
C13_Witness ==
    /\ last.op = "revalidate" /\ last.capability = "dim"
    /\ last.value = PyFloat((2 * Scale) \div 100)
    /\ last.verdict.is_valid /\ last.verdict.value = last.value

\* C14: the range-checked classes accept exactly the in-range values and do
\* not rescale them: target_temperature and measure_temperature iff
\* -50 <= x <= 100; measure_power, meter_power, measure_voltage and
\* measure_current iff x >= 0; measure_battery and measure_humidity iff
\* 0 <= x <= 100; light_mode iff the value is "color" or "temperature".  An
\* accepted value comes back with an empty note, a rejected one as the raw
\* input.
C14_RangeChecked ==
    (last.op = "validate") =>
        LET x == ToFloat(last.value)
            numeric(in_range) ==
                IF x.ok /\ in_range
                THEN last.verdict = [is_valid |-> TRUE, value |-> PyFloat(x.n), message |-> ""]
                ELSE ~last.verdict.is_valid /\ last.verdict.value = last.value
        IN /\ last.capability \in {"target_temperature", "measure_temperature"} =>
                numeric((0 - 50) * Scale <= x.n /\ x.n <= 100 * Scale)
           /\ last.capability \in {"measure_power", "meter_power", "measure_voltage",
                                    "measure_current"} =>
                numeric(x.n >= 0)
           /\ last.capability \in {"measure_battery", "measure_humidity"} =>
                numeric(0 <= x.n /\ x.n <= 100 * Scale)
           /\ last.capability = "light_mode" =>
                IF last.value \in {PyStr("color"), PyStr("temperature")}
                THEN last.verdict = [is_valid |-> TRUE, value |-> last.value, message |-> ""]
                ELSE ~last.verdict.is_valid /\ last.verdict.value = last.value

C14_Witness ==
    /\ last.op = "validate" /\ last.capability = "target_temperature"
    /\ last.value = PyInt(100)
    /\ last.verdict = [is_valid |-> TRUE, value |-> PyFloat(100 * Scale), message |-> ""]

C16_AsStated ==
    (/\ last.op \notin {"none", "connect", "validate", "revalidate", "tool"}
     /\ WasLive /\ last.pre.session
     /\ \E i \in DOMAIN last.resps : last.resps[i].exc = "" /\ last.resps[i].status = 401) =>
        last.err # NoErr

\* C17: for action on, off or toggle, control_lights_in_zone returns exactly
\* one result line for every device of class light whose zone name contains
\* the requested zone name (case-insensitive), whether the writes of that
\* light succeeded or failed: a failure on one light does not keep the
\* lights after it from being processed.
C17_OneLinePerLight ==
    (/\ last.op = "tool" /\ last.tool = "control_lights_in_zone"
     /\ last.args.action \in {"on", "off", "toggle"}) =>
        LET seen == last.args.devices
            matched == {d \in DOMAIN seen :
                          /\ seen[d].class = "light"
                          /\ Contains(Lower(seen[d].zoneName), Lower(last.args.zone_name))}
            lines == last.reply.lines
        IN /\ Len(lines) = Cardinality(matched)
           /\ {lines[i][1] : i \in DOMAIN lines} = matched
           /\ matched # {} =>
                Len(last.reply.errors) = Cardinality({i \in DOMAIN lines : ~lines[i][2]})

\* two lights of the zone on the hub: the write of the first failed, the
\* second was written all the same
C17_Witness ==
    /\ last.op = "tool" /\ last.tool = "control_lights_in_zone" /\ WasLive
    /\ last.args.action = "off"
    /\ Len(last.reply.lines) = 2
    /\ ~last.reply.lines[1][2] /\ last.reply.lines[2][2]
    /\ \E i \in DOMAIN last.reqs : last.reqs[i].a = last.reply.lines[2][1]

\* the PUT requests of the last call that address device d, in order
PutsTo(d) == SelectSeq(last.reqs, LAMBDA q : q.m = "PUT" /\ q.a = d)

\* C18: with action on, control_lights_in_zone writes to each matched light
\* in this order: dim (only when a brightness is given and the light declares
\* dim), then onoff = true, then light_temperature = color_temperature / 100
\* (only when a color_temperature is given and the light declares
\* light_temperature); the dim value is never below 0.01; with action off or
\* toggle it writes onoff only.  A light whose write fails gets the writes up
\* to that one; a light reported as done gets them all.
C18_LightWriteOrder ==
    (/\ last.op = "tool" /\ last.tool = "control_lights_in_zone" /\ WasLive
     /\ last.args.action \in {"on", "off", "toggle"}) =>
        \A i \in DOMAIN last.reply.lines :
            LET d == last.reply.lines[i][1]
                caps == DOMAIN last.args.devices[d].capabilitiesObj
                puts == PutsTo(d)
                expected ==
                    IF last.args.action = "on"
                    THEN (IF last.args.brightness # PyNone /\ "dim" \in caps
                          THEN <<"dim">> ELSE <<>>)
                         \o <<"onoff">>
                         \o (IF last.args.color_temperature # PyNone
                                 /\ "light_temperature" \in caps
                             THEN <<"light_temperature">> ELSE <<>>)
                    ELSE <<"onoff">>
            IN /\ Len(puts) <= Len(expected)
               /\ \A k \in DOMAIN puts :
                     /\ puts[k].b = expected[k]
                     /\ puts[k].b = "dim" => puts[k].body.n >= Scale \div 100
                     /\ (puts[k].b = "onoff" /\ last.args.action = "on") =>
                            puts[k].body = PyBool(TRUE)
                     /\ (puts[k].b = "onoff" /\ last.args.action = "off") =>
                            puts[k].body = PyBool(FALSE)
                     /\ puts[k].b = "light_temperature" =>
                            puts[k].body = PyFloat(last.args.color_temperature.n \div 100)
               /\ last.reply.lines[i][2] => Len(puts) = Len(expected)

\* brightness 0 and a colour temperature for a light that declares both
C18_Witness ==
    /\ last.op = "tool" /\ last.tool = "control_lights_in_zone" /\ WasLive
    /\ last.args.action = "on" /\ last.args.brightness = PyInt(0)
    /\ \E i \in DOMAIN last.reply.lines :
          /\ last.reply.lines[i][2]
          /\ Len(PutsTo(last.reply.lines[i][1])) = 3
          /\ PutsTo(last.reply.lines[i][1])[1].body = PyFloat(Scale \div 100)
          /\ PutsTo(last.reply.lines[i][1])[3].b = "light_temperature"

\* C19: set_light_color writes no capability unless the device has class
\* light and declares both light_hue and light_saturation; when it proceeds
\* it writes, in this order, light_mode = "color" (only if the device
\* declares light_mode), light_hue = hue / 360, light_saturation =
\* saturation / 100 and then, only if a brightness is given and the device
\* declares dim, dim followed by onoff = true.  The writes end at the first
\* one that raises; a call reported as done made them all.
C19_ColorWrites ==
    (last.op = "tool" /\ last.tool = "set_light_color" /\ WasLive) =>
        LET d == last.args.device_id
            seen == last.args.devices
            writes == SelectSeq(last.reqs, LAMBDA q : q.m # "GET")
        IN IF \/ d \notin DOMAIN seen
              \/ seen[d].class # "light"
              \/ "light_hue" \notin DOMAIN seen[d].capabilitiesObj
              \/ "light_saturation" \notin DOMAIN seen[d].capabilitiesObj
           THEN writes = <<>> /\ last.reply.failure
           ELSE LET caps == DOMAIN seen[d].capabilitiesObj
                    puts == PutsTo(d)
                    expected ==
                        (IF "light_mode" \in caps
                         THEN << <<"light_mode", PyStr("color")>> >> ELSE <<>>)
                        \o << <<"light_hue", PyFloat(last.args.hue.n \div 360)>>,
                              <<"light_saturation", PyFloat(last.args.saturation.n \div 100)>> >>
                        \o (IF last.args.brightness # PyNone /\ "dim" \in caps
                            THEN << <<"dim", PyFloat(last.args.brightness.n \div 100)>>,
                                    <<"onoff", PyBool(TRUE)>> >>
                            ELSE <<>>)
                IN /\ Len(puts) <= Len(expected)
                   /\ \A k \in DOMAIN puts :
                         puts[k].b = expected[k][1] /\ puts[k].body = expected[k][2]
                   /\ \A k \in DOMAIN writes : writes[k].a = d
                   /\ ~last.reply.failure => Len(puts) = Len(expected)

\* a colour light that declares light_mode but not dim, brightness given
C19_Witness ==
    /\ last.op = "tool" /\ last.tool = "set_light_color" /\ WasLive
    /\ last.args.brightness # PyNone /\ ~last.reply.failure
    /\ Len(PutsTo(last.args.device_id)) = 3
    /\ PutsTo(last.args.device_id)[1].b = "light_mode"
    /\ PutsTo(last.args.device_id)[1].body = PyStr("color")

\* C20: when a device id is absent from the map get_devices() returns,
\* get_device raises a not-found error, and control_device,
\* set_thermostat_temperature and set_light_color return a failure text
\* without calling set_capability_value: nothing is written for an unknown
\* device.
C20_UnknownDeviceNotWritten ==
    (/\ last.op = "tool"
     /\ last.tool \in {"control_device", "set_thermostat_temperature", "set_light_color"}
     /\ last.args.err = NoErr
     /\ last.args.device_id \notin DOMAIN last.args.devices) =>
        /\ last.raised = <<[kind |-> "ValueError: Device not found", code |-> 0]>>
        /\ last.reply.failure
        /\ last.reply.errors = last.raised
        /\ \A i \in DOMAIN last.reqs : last.reqs[i].m = "GET"
        /\ device_cache = last.args.devices \/ WasDemo

\* an id the hub does not list, though it lists other devices
C20_Witness ==
    /\ last.op = "tool" /\ last.tool = "control_device" /\ WasLive
    /\ last.args.err = NoErr /\ last.args.devices # NoDevices
    /\ last.args.device_id \notin DOMAIN last.args.devices
    /\ last.reply.failure /\ Len(last.reqs) = 1

\* C21 (as stated): in live mode get_insights_logs returns a dict-shaped body
\* unchanged and, for a list-shaped one, a map that holds for every log
\* carrying an id and an owner URI a record of its own under
\* "{deviceId}.{capability}", with the log's id as full_id and the capability
\* name as id: every such log is found in the map with its own id, and the
\* map has as many records as the list has such logs.
C21_AsStated ==
    (last.op = "get_insights_logs" /\ ~DemoActive(last.pre) /\ last.args.ok) =>
        /\ last.args.shape = "dict" => last.data.flags = last.args.raw
        /\ last.args.shape = "list" =>
             LET raw == last.args.raw
                 kept == {i \in DOMAIN raw : raw[i].has_id /\ raw[i].has_uri}
             IN /\ \A i \in kept :
                     \E k \in DOMAIN last.data.flags :
                        /\ k[2] = raw[i].ownerId
                        /\ last.data.flags[k].full_id = raw[i].id
                        /\ last.data.flags[k].id = raw[i].ownerId
                /\ Cardinality(DOMAIN last.data.flags) = Cardinality(kept)

\* C21: what holds of the map: a dict-shaped body is returned unchanged, every
\* record of the map comes from a log carrying both fields, and the last log
\* of every key is the one recorded.
C21_LastLogOfAKeyStays ==
    (last.op = "get_insights_logs" /\ ~DemoActive(last.pre) /\ last.args.ok) =>
        /\ last.args.shape = "dict" => last.data.flags = last.args.raw
        /\ last.args.shape = "list" =>
             LET raw == last.args.raw IN
             \A k \in DOMAIN last.data.flags :
                \E i \in DOMAIN raw :
                   /\ raw[i].has_id /\ raw[i].has_uri
                   /\ k[2] = raw[i].ownerId
                   /\ last.data.flags[k] = LogRecord(raw[i].ownerId, raw[i].id, raw[i].ownerUri)
                   /\ \A j \in DOMAIN raw :
                        (j > i /\ raw[j].has_id /\ raw[j].has_uri /\ raw[j].ownerId = k[2])
                            => SplitColon(raw[j].ownerUri) # SplitColon(raw[i].ownerUri)

\* two logs of one owner, neither naming a capability, leave one record
C21_Witness ==
    /\ last.op = "get_insights_logs" /\ ~DemoActive(last.pre)
    /\ last.args.ok /\ last.args.shape = "list"
    /\ Len(last.args.raw) = 2
    /\ \A i \in 1..2 : last.args.raw[i].has_id /\ last.args.raw[i].has_uri
    /\ last.args.raw[1].id # last.args.raw[2].id
    /\ Cardinality(DOMAIN last.data.flags) = 1

\* C22: in live mode get_insights_log_entries sends the entries request only
\* when "{deviceId}.{capability}" is a key of the normalized log map with a
\* non-empty full_id, sends it after the requests that listed the logs, and
\* puts that full_id into the path percent-encoded; when the key is missing
\* or its record has no full_id it returns an empty list without an error and
\* without an entries request.
C22_EntriesByFullId ==
    (last.op = "get_insights_log_entries" /\ ~DemoActive(last.pre)) =>
        LET logs == last.args.logs
            key == <<last.device_id, last.args.log_id>>
            resolved == key \in DOMAIN logs /\ logs[key].full_id # ""
            asked == {i \in DOMAIN last.reqs : last.reqs[i].p = EntryPath}
            encoded == {<<"homey:device:light1:dim", "homey%3Adevice%3Alight1%3Adim">>,
                        <<"homey:device:light1:onoff", "homey%3Adevice%3Alight1%3Aonoff">>,
                        <<"homey:weather:temp", "homey%3Aweather%3Atemp">>,
                        <<"log1", "log1">>}
        IN /\ resolved => /\ asked = {Len(last.reqs)}
                          /\ <<logs[key].full_id, last.reqs[Len(last.reqs)].a>> \in encoded
           /\ ~resolved => /\ asked = {}
                           /\ last.err = NoErr
                           /\ last.data = Data("entries", 0, <<>>)
           /\ \A i \in DOMAIN last.reqs \ asked : last.reqs[i].p \in {LogEndpoints[1], LogEndpoints[2]}

\* the entries of light1's dim log are asked for under the encoded id, after
\* the second log endpoint listed it
C22_Witness ==
    /\ last.op = "get_insights_log_entries" /\ ~DemoActive(last.pre)
    /\ last.args.uri = "homey:device:light1" /\ last.args.log_id = "dim"
    /\ Len(last.reqs) = 3
    /\ last.reqs[3].p = EntryPath
    /\ last.reqs[3].a = "homey%3Adevice%3Alight1%3Adim"
    /\ last.data.n = 2

\* a key that is missing from the map: nothing is asked of the entries endpoint
C22_WitnessMissing ==
    /\ last.op = "get_insights_log_entries" /\ ~DemoActive(last.pre)
    /\ last.args.uri = "homey:weather" /\ last.args.log_id = "temp"
    /\ <<"unknown", "temp">> \in DOMAIN last.args.logs
    /\ \A i \in DOMAIN last.reqs : last.reqs[i].p # EntryPath
    /\ last.data = Data("entries", 0, <<>>)

\* C23: in demo/offline mode get_devices() contacts no hub and returns the
\* fixture of five devices on every call, whatever was done before; each of
\* the five has a class among light, sensor, thermostat and socket and at
\* least one capability.
C23_DemoFixture ==
    (last.op = "get_devices" /\ (last.pre.offline_mode \/ last.pre.demo_mode)) =>
        /\ last.err = NoErr
        /\ last.reqs = <<>>
        /\ last.devices = demo_devices
        /\ DOMAIN last.devices = {"light1", "light2", "sensor1", "thermostat1", "socket1"}
        /\ \A d \in DOMAIN last.devices :
              /\ last.devices[d].class \in {"light", "sensor", "thermostat", "socket"}
              /\ DOMAIN last.devices[d].capabilitiesObj # {}

\* the fixture is served by a client that opened a session, failed to reach
\* the hub and degraded, at a later time than its start
C23_Witness ==
    /\ last.op = "get_devices"
    /\ last.pre.session /\ last.pre.offline_mode /\ last.pre.demo_mode
    /\ last.at > CacheTTL
    /\ last.devices = demo_devices
    /\ last.devices["light1"].capabilitiesObj["dim"].value = PyFloat(8000)

\* C24 (as stated): a light_hue of 120, given in degrees, is accepted by
\* validate_capability_value and converted to a fraction between 0 and 1, so
\* set_capability_value("light1", "light_hue", 120) raises nothing.
C24_AsStated ==
    (last.op = "set_capability_value" /\ last.device_id = "light1"
        /\ last.capability = "light_hue" /\ last.value = PyInt(120)) =>
        LET v == validate_capability_value(last.capability, last.value) IN
        /\ v.is_valid
        /\ v.value.t = "float" /\ v.value.n >= 0 /\ v.value.n <= Scale
        /\ last.err.kind \notin {"ValueError: Invalid capability value"}

\* C25: a step that changes offline_mode or demo_mode is a connect() and
\* leaves both flags set; no step clears a flag, so no operation and no error
\* after connect() changes either flag and a client in demo/offline mode
\* stays in it.
C25_FlagsSetOnlyByConnect ==
    [][/\ (offline_mode' # offline_mode \/ demo_mode' # demo_mode)
            => (last'.op = "connect" /\ offline_mode' /\ demo_mode')
       /\ offline_mode => offline_mode'
       /\ demo_mode => demo_mode'
       /\ (offline_mode \/ demo_mode) => (offline_mode' \/ demo_mode')]_vars

\* connect() has degraded a client that was configured live
C25_Witness ==
    /\ last.op = "connect"
    /\ ~last.pre.offline_mode /\ ~last.pre.demo_mode
    /\ last.resps # <<>> /\ last.resps[1].exc = "ConnectError"
    /\ offline_mode /\ demo_mode

\* C26: a get_devices() call whose device-list request fails (an error
\* status, a timeout, a transport error or a body that cannot be decoded)
\* raises that error, returns no device map (so never the expired cache) and
\* leaves device_cache and cache_timestamp as they were before the call; a
\* call that raises nothing after a request returns the fetched map.
C26_FailedFetchRaises ==
    (last.op = "get_devices" /\ last.reqs # <<>>) =>
        /\ ~IsSuccess(last.resps[1]) => last.err = ErrOf(last.resps[1])
        /\ last.err.kind \in {"", "HTTPStatusError", "ConnectTimeout", "ConnectError",
                              "JSONDecodeError"}
        /\ last.err # NoErr =>
              /\ last.devices = NoDevices
              /\ device_cache = last.pre.device_cache
              /\ cache_timestamp = last.pre.cache_timestamp
        /\ last.err = NoErr =>
              /\ IsSuccess(last.resps[1])
              /\ device_cache = last.devices
              /\ cache_timestamp = last.at

\* the refresh of an expired, non-empty cache is answered with a 500
C26_Witness ==
    /\ last.op = "get_devices"
    /\ last.pre.device_cache # NoDevices
    /\ last.at - last.pre.cache_timestamp >= CacheTTL
    /\ last.resps = <<[status |-> 500, exc |-> ""]>>
    /\ last.err = Err("HTTPStatusError", 500)
    /\ device_cache = last.pre.device_cache

\* the refresh of an expired, non-empty cache is answered with an undecodable body
C26_WitnessUndecodable ==
    /\ last.op = "get_devices"
    /\ last.pre.device_cache # NoDevices
    /\ last.resps = <<Ok200>>
    /\ last.err = Err("JSONDecodeError", 0)
    /\ device_cache = last.pre.device_cache

\* the refresh stored a map the hub produced before it stored the write, and
\* stored it after the write had patched the cache
StaleRefreshWon ==
    /\ last.args.fetched
    /\ ~last.args.saw_write
    /\ last.args.resumed = <<"write", "refresh">>

\* the write of an overlap succeeded for a capability the cache now holds
OverlapWrote ==
    /\ BothReturned
    /\ written.valid
    /\ last.device_id \in DOMAIN device_cache
    /\ last.capability \in DOMAIN device_cache[last.device_id].capabilitiesObj

\* C27 (as stated): after a get_devices refresh and a successful
\* set_capability_value(d, c, v) have overlapped and both returned, the cache
\* reports the written value of c for d.
C27_AsStated ==
    (OverlapWrote /\ last.args.fetched) =>
        device_cache[last.device_id].capabilitiesObj[last.capability].value = written.value

\* C27: after a get_devices and a successful set_capability_value(d, c, v)
\* have overlapped and both returned, the cache reports the written value of
\* c unless the refresh stored, after the write patched the cache, a map the
\* hub had produced before it stored the write; then the cache reports the
\* value the hub held before the write.
C27_StaleRefreshWins ==
    OverlapWrote =>
        LET cached == device_cache[last.device_id].capabilitiesObj[last.capability].value IN
        /\ ~StaleRefreshWon => cached = written.value
        /\ StaleRefreshWon =>
              /\ device_cache = last.args.body
              /\ cached = last.args.body[last.device_id].capabilitiesObj[last.capability].value

\* the dim of 0.5 was written and patched, and the refresh then put 0.6 back
C27_Witness ==
    /\ OverlapWrote /\ StaleRefreshWon
    /\ last.capability = "dim"
    /\ written.value = PyFloat(Scale \div 2)
    /\ last.pre.device_cache # NoDevices
    /\ device_cache["light1"].capabilitiesObj["dim"].value = PyFloat(6000)

\* the requests of the last call to device d that the hub answered with a
\* success: the writes that took effect
Stored(d) ==
    {i \in DOMAIN last.reqs :
        last.reqs[i].m # "GET" /\ last.reqs[i].a = d /\ IsSuccess(last.resps[i])}

\* C28 (as stated): in control_lights_in_zone and set_light_color a device
\* reported as failed has had none of its capabilities stored on the hub by
\* that call.
C28_AsStated ==
    /\ (last.op = "tool" /\ last.tool = "control_lights_in_zone" /\ WasLive) =>
          \A i \in DOMAIN last.reply.lines :
             ~last.reply.lines[i][2] => Stored(last.reply.lines[i][1]) = {}
    /\ (last.op = "tool" /\ last.tool = "set_light_color" /\ WasLive /\ last.reply.failure) =>
          Stored(last.args.device_id) = {}

\* C28: what holds instead: the writes for one device are made one after the
\* other and stop at the first that raises, so a device reported as failed
\* keeps every write before the failing one, and the failing write is its
\* last request.
C28_WritesBeforeFailureStay ==
    (last.op = "tool" /\ last.tool = "control_lights_in_zone" /\ WasLive) =>
        \A i \in DOMAIN last.reply.lines :
           LET d == last.reply.lines[i][1]
               mine == {k \in DOMAIN last.reqs : last.reqs[k].m # "GET" /\ last.reqs[k].a = d}
           IN ~last.reply.lines[i][2] =>
                 \A k \in mine : k \in Stored(d) <=> (\E m \in mine : m > k) /\ last.resps[k].status # 405

\* dim was stored for the lamp and the onoff after it failed
C28_Witness ==
    /\ last.op = "tool" /\ last.tool = "control_lights_in_zone" /\ WasLive
    /\ Len(last.reply.lines) >= 1 /\ ~last.reply.lines[1][2]
    /\ \E k \in Stored(last.reply.lines[1][1]) : last.reqs[k].b = "dim"

\* the dim values the last call sent to the hub
DimSent == {last.reqs[i].body : i \in {k \in DOMAIN last.reqs : last.reqs[k].b = "dim"}}

\* C29 (as stated): whatever brightness b control_lights_in_zone or
\* set_light_color is given, a dim value that is sent to the hub is
\* max(0.01, b / 100): the validator leaves the value the tool converted as
\* it is, or rejects it.
C29_AsStated ==
    (/\ last.op = "tool" /\ last.tool \in {"control_lights_in_zone", "set_light_color"}
     /\ WasLive /\ last.args.brightness # PyNone) =>
        DimSent \subseteq {PyFloat(Max(Scale \div 100, last.args.brightness.n \div 100))}

\* C29: what holds instead: a brightness b up to 100 reaches the hub as
\* max(0.01, b / 100); for b above 100 the tool's value b / 100 lies above 1,
\* the validator takes it for a percentage and the hub gets b / 10000.
C29_RescaledAbove100 ==
    (/\ last.op = "tool" /\ last.tool \in {"control_lights_in_zone", "set_light_color"}
     /\ WasLive /\ last.args.brightness # PyNone) =>
        LET b == last.args.brightness.n IN
        DimSent \subseteq {PyFloat(IF b <= 100 * Scale THEN Max(Scale \div 100, b \div 100)
                                   ELSE b \div (100 * 100))}

\* a brightness of 150 reached the hub as 0.015
C29_Witness ==
    /\ last.op = "tool" /\ last.tool = "control_lights_in_zone" /\ WasLive
    /\ last.args.brightness = PyInt(150)
    /\ DimSent = {PyFloat(150)}
    /\ ~last.reply.failure

\* handle_get_device_insights found the device, the capability and the log,
\* and the entries were fetched without an error and are not empty
EntriesFetched ==
    /\ last.op = "tool" /\ last.tool = "get_device_insights"
    /\ last.args.device.err = NoErr
    /\ last.args.capability \in DOMAIN last.args.device.devices[last.args.device_id].capabilitiesObj
    /\ <<last.args.device_id, last.args.capability>> \in DOMAIN last.args.logs
    /\ last.args.entries.err = NoErr
    /\ last.args.entries.data.n > 0

\* C30 (as stated): when the entries of an existing device capability were
\* fetched without an error and are not empty, handle_get_device_insights
\* returns the report with the data point count and the analysis of the
\* value type, whatever the type and the number of entries; the fallback
\* "not accessible" and the error text are returned only when the fetch of
\* the entries raised.
C30_AsStated ==
    EntriesFetched =>
        /\ ~last.reply.failure
        /\ last.reply.n = last.args.entries.data.n
        /\ last.reply.kind =
             CASE last.args.entries.data.flags[1] = "bool" -> "Data Points, State Analysis"
               [] last.args.entries.data.flags[1] = "float" -> "Data Points, Statistics"
               [] OTHER -> "Data Points"

\* C30: what holds instead: the report is returned unless the values are
\* boolean and there are five entries or more; then the error text is
\* returned although nothing raised in the fetch.
C30_ReportUnlessManyBooleans ==
    EntriesFetched =>
        LET many == last.args.entries.data.flags[1] = "bool" /\ last.args.entries.data.n >= 5 IN
        /\ last.reply.failure <=> many
        /\ many => last.reply.kind = "[X] Error getting device insights: {e}"
        /\ ~many => last.reply.n = last.args.entries.data.n
        /\ last.reply.kind # "historical data not accessible"

\* demo mode, light1 and onoff: 24 boolean entries and the error text
C30_Witness ==
    /\ EntriesFetched
    /\ ~WasLive
    /\ last.args.device_id = "light1" /\ last.args.capability = "onoff"
    /\ last.args.entries.data.n = 24
    /\ last.reply.failure
    /\ last.raised = <<Err("UnboundLocalError", 0)>>

====
